---- MODULE Spec2Model ----
(***************************************************************************)
(* Model of src/common/wallet.c of app-bitcoin-new: the wallet-policy      *)
(* parser (parse_policy_map / parse_script) and its lexical primitives.    *)
(*                                                                         *)
(* A text is a sequence of one-character strings.  A buffer_t over a text  *)
(* is the pair (text, offset); offset counts the bytes already consumed.   *)
(* A size_t / uint32_t value is a pair <<hi, lo>> of 16-bit limbs, so that *)
(* the 32-bit arithmetic of the device build is kept exactly.              *)
(***************************************************************************)
EXTENDS Integers, Sequences, FiniteSets, TLC

VARIABLES in_buf, out_addr, out_len, pc, res

vars == <<in_buf, out_addr, out_len, pc, res>>

---------------------------------------------------------------------------
(* Characters *)

Digits == {"0", "1", "2", "3", "4", "5", "6", "7", "8", "9"}

LowerAlpha == {"a", "b", "c", "d", "e", "f", "g", "h", "i", "j", "k", "l", "m",
               "n", "o", "p", "q", "r", "s", "t", "u", "v", "w", "x", "y", "z"}

UpperAlpha == {"A", "B", "C", "D", "E", "F", "G", "H", "I", "J", "K", "L", "M",
               "N", "O", "P", "Q", "R", "S", "T", "U", "V", "W", "X", "Y", "Z"}

DigitValue(c) ==
    CASE c = "0" -> 0 [] c = "1" -> 1 [] c = "2" -> 2 [] c = "3" -> 3
      [] c = "4" -> 4 [] c = "5" -> 5 [] c = "6" -> 6 [] c = "7" -> 7
      [] c = "8" -> 8 [] c = "9" -> 9

is_digit(c) == c \in Digits

is_alpha(c) == c \in LowerAlpha \/ c \in UpperAlpha

is_alphanumeric(c) == is_alpha(c) \/ is_digit(c)

is_lowercase_hex(c) == is_digit(c) \/ c \in {"a", "b", "c", "d", "e", "f"}

lowercase_hex_to_int(c) ==
    IF is_digit(c) THEN DigitValue(c)
    ELSE CASE c = "a" -> 10 [] c = "b" -> 11 [] c = "c" -> 12
           [] c = "d" -> 13 [] c = "e" -> 14 [] c = "f" -> 15

\* lookup table for characters that represent a valid miniscript wrapper
is_valid_miniscript_wrapper ==
    [c \in LowerAlpha |-> c \in {"a", "c", "d", "j", "l", "n", "s", "t", "u", "v"}]

---------------------------------------------------------------------------
(* size_t on the device: 32 bits, kept as two 16-bit limbs <<hi, lo>> *)

LimbBase == 2^16

SizeT(n) == <<n \div LimbBase, n % LimbBase>>

SizeT_Lt(a, b) == a[1] < b[1] \/ (a[1] = b[1] /\ a[2] < b[2])

SizeT_Le(a, b) == a = b \/ SizeT_Lt(a, b)

\* 10 * result + next_digit, computed modulo 2^32
SizeT_Mul10Add(result, next_digit) ==
    LET lo == 10 * result[2] + next_digit
        hi == 10 * result[1] + (lo \div LimbBase)
    IN  <<hi % LimbBase, lo % LimbBase>>

\* (size_t) -1, the error value of parse_key_index
SizeT_Max == <<LimbBase - 1, LimbBase - 1>>

\* 1u << 31
TwoTo31 == <<LimbBase \div 2, 0>>

---------------------------------------------------------------------------
(* Input cursor (buffer_t over the policy text) *)

buffer_can_read(buf, pos, n) == pos + n <= Len(buf)

\* buffer_peek_n: the byte n places after the cursor, or "" when exhausted
buffer_peek_n(buf, pos, n) == IF pos + n < Len(buf) THEN buf[pos + n + 1] ELSE ""

buffer_peek(buf, pos) == buffer_peek_n(buf, pos, 0)

\* consume_character: the cursor after `expected`, or -1 when the next byte differs
consume_character(buf, pos, expected) ==
    IF buffer_peek(buf, pos) = expected THEN pos + 1 ELSE -1

RECURSIVE read_token(_, _, _)
\* the length of the word read: at most out_len bytes of [a-zA-Z0-9_]
read_token(buf, pos, max_len) ==
    LET c == buffer_peek(buf, pos)
    IN  IF max_len > 0 /\ c # "" /\ (is_alphanumeric(c) \/ c = "_")
        THEN 1 + read_token(buf, pos + 1, max_len - 1)
        ELSE 0

MAX_TOKEN_LENGTH == 11

KNOWN_TOKENS == <<
    [type |-> "SH",          name |-> <<"s","h">>],
    [type |-> "WSH",         name |-> <<"w","s","h">>],
    [type |-> "PKH",         name |-> <<"p","k","h">>],
    [type |-> "WPKH",        name |-> <<"w","p","k","h">>],
    [type |-> "MULTI",       name |-> <<"m","u","l","t","i">>],
    [type |-> "SORTEDMULTI", name |-> <<"s","o","r","t","e","d","m","u","l","t","i">>],
    [type |-> "TR",          name |-> <<"t","r">>],
    [type |-> "0",           name |-> <<"0">>],
    [type |-> "1",           name |-> <<"1">>],
    [type |-> "PK",          name |-> <<"p","k">>],
    [type |-> "PK_K",        name |-> <<"p","k","_","k">>],
    [type |-> "PK_H",        name |-> <<"p","k","_","h">>],
    [type |-> "OLDER",       name |-> <<"o","l","d","e","r">>],
    [type |-> "AFTER",       name |-> <<"a","f","t","e","r">>],
    [type |-> "SHA256",      name |-> <<"s","h","a","2","5","6">>],
    [type |-> "HASH256",     name |-> <<"h","a","s","h","2","5","6">>],
    [type |-> "RIPEMD160",   name |-> <<"r","i","p","e","m","d","1","6","0">>],
    [type |-> "HASH160",     name |-> <<"h","a","s","h","1","6","0">>],
    [type |-> "ANDOR",       name |-> <<"a","n","d","o","r">>],
    [type |-> "AND_V",       name |-> <<"a","n","d","_","v">>],
    [type |-> "AND_B",       name |-> <<"a","n","d","_","b">>],
    [type |-> "AND_N",       name |-> <<"a","n","d","_","n">>],
    [type |-> "OR_B",        name |-> <<"o","r","_","b">>],
    [type |-> "OR_C",        name |-> <<"o","r","_","c">>],
    [type |-> "OR_D",        name |-> <<"o","r","_","d">>],
    [type |-> "OR_I",        name |-> <<"o","r","_","i">>],
    [type |-> "THRESH",      name |-> <<"t","h","r","e","s","h">>] >>

\* a parse_token that recognises the word ahead and leaves the cursor before it
parse_token_peek(buf, pos) ==
    LET word_len == read_token(buf, pos, MAX_TOKEN_LENGTH)
        word     == SubSeq(buf, pos + 1, pos + word_len)
        hits     == {i \in 1..Len(KNOWN_TOKENS) : KNOWN_TOKENS[i].name = word}
    IN  [token |-> IF hits = {} THEN "INVALID"
                   ELSE KNOWN_TOKENS[CHOOSE i \in hits : \A j \in hits : i <= j].type,
         pos   |-> pos]

\* parse_token: the token read and the cursor after it
parse_token(buf, pos) ==
    LET word_len == read_token(buf, pos, MAX_TOKEN_LENGTH)
        word     == SubSeq(buf, pos + 1, pos + word_len)
        hits     == {i \in 1..Len(KNOWN_TOKENS) : KNOWN_TOKENS[i].name = word}
    IN  [token |-> IF hits = {} THEN "INVALID"
                   ELSE KNOWN_TOKENS[CHOOSE i \in hits : \A j \in hits : i <= j].type,
         pos   |-> pos + word_len]

\* a parser that lets any digit follow a first digit 0
leading_zero_never(digits_read, result) == FALSE

\* if the first digit was a 0, then it should be the only digit
leading_zero(digits_read, result) == digits_read = 2 /\ result = SizeT(0)

RECURSIVE parse_unsigned_decimal_loop(_, _, _, _)
parse_unsigned_decimal_loop(buf, pos, result, digits_read) ==
    LET c == buffer_peek(buf, pos)
    IN  IF c # "" /\ is_digit(c)
        THEN LET next_digit == DigitValue(c)
                 next       == SizeT_Mul10Add(result, next_digit)
             IN  IF leading_zero(digits_read + 1, result)
                 THEN [ok |-> FALSE, pos |-> pos, out |-> result]
                 ELSE IF SizeT_Lt(next, result)
                 THEN [ok |-> FALSE, pos |-> pos, out |-> result]
                 ELSE parse_unsigned_decimal_loop(buf, pos + 1, next, digits_read + 1)
        ELSE [ok |-> digits_read # 0, pos |-> pos, out |-> result]

\* parse_unsigned_decimal: [ok, pos, out]
parse_unsigned_decimal(buf, pos) == parse_unsigned_decimal_loop(buf, pos, SizeT(0), 0)

\* parse_key_index: "@" then a decimal; (size_t) -1 on failure
parse_key_index(buf, pos) ==
    IF buffer_peek(buf, pos) # "@"
    THEN [pos |-> pos + 1, k |-> SizeT_Max]
    ELSE LET d == parse_unsigned_decimal(buf, pos + 1)
         IN  [pos |-> d.pos, k |-> IF d.ok THEN d.out ELSE SizeT_Max]

---------------------------------------------------------------------------
(* Output arena (buffer_t over the caller's memory) and policy nodes.      *)
(* A pointer into the arena is the index of the cell allocated there; the  *)
(* current pointer (buffer_get_cur) is the index the next cell will get.   *)

NULL == 0

\* sizes, in bytes, of the structures the parser allocates (32-bit layout)
Sizeof(struct) ==
    CASE struct = "policy_node_constant_t"      -> 8
      [] struct = "policy_node_with_key_t"      -> 12
      [] struct = "policy_node_with_script_t"   -> 12
      [] struct = "policy_node_with_script2_t"  -> 16
      [] struct = "policy_node_with_script3_t"  -> 20
      [] struct = "policy_node_with_uint32_t"   -> 12
      [] struct = "policy_node_with_hash_160_t" -> 28
      [] struct = "policy_node_with_hash_256_t" -> 40
      [] struct = "policy_node_thresh_t"        -> 20
      [] struct = "policy_node_multisig_t"      -> 20
      [] struct = "policy_node_scriptlist_t"    -> 8
      [] struct = "size_t"                      -> 4

buffer_create(size) == [cells |-> <<>>, offset |-> 0, size |-> size]

buffer_get_cur(out) == Len(out.cells) + 1

\* buffer_alloc that never returns NULL
buffer_alloc_unchecked(out, struct) == TRUE

\* buffer_alloc: whether `struct` still fits
buffer_alloc_ok(out, struct) == out.offset + Sizeof(struct) <= out.size

\* buffer_alloc: the arena with `cell` allocated at the current pointer
buffer_alloc(out, struct, cell) ==
    [out EXCEPT !.cells = Append(@, cell), !.offset = @ + Sizeof(struct)]

\* flags of a node nobody wrote yet
UninitFlags ==
    [is_miniscript |-> -1, miniscript_type |-> "?", miniscript_mod_z |-> -1,
     miniscript_mod_o |-> -1, miniscript_mod_n |-> -1, miniscript_mod_d |-> -1,
     miniscript_mod_u |-> -1]

\* flags.is_miniscript = 0, the other bits left as they were
NotMiniscript == [UninitFlags EXCEPT !.is_miniscript = 0]

\* flags.is_miniscript = 1 with the type and the five modifiers
Miniscript(t, z, o, n, d, u) ==
    [is_miniscript |-> 1, miniscript_type |-> t, miniscript_mod_z |-> z,
     miniscript_mod_o |-> o, miniscript_mod_n |-> n, miniscript_mod_d |-> d,
     miniscript_mod_u |-> u]

\* a freshly allocated policy node of the given token
NewNode(token) ==
    [kind |-> "node", type |-> token, flags |-> UninitFlags, scripts |-> <<>>,
     k |-> SizeT(0), n |-> 0, num |-> SizeT(0), ptr |-> NULL,
     key_index |-> SizeT(0), h |-> <<>>]

NewScriptlist == [kind |-> "scriptlist", script |-> NULL, next |-> NULL]

NewKeyIndex(v) == [kind |-> "size_t", val |-> v]

\* C's & and | on one-bit fields
BitAnd(a, b) == a * b

BitOr(a, b) == IF a + b > 0 THEN 1 ELSE 0

Ok(flags) == [ok |-> TRUE, flags |-> flags]

InvalidType == [ok |-> FALSE, flags |-> UninitFlags]

---------------------------------------------------------------------------
(* Type and modifiers of the miniscript fragments with children *)

\* andor with u taken as Y.u | Z.u
andor_flags_u_or(X, Y, Z) ==
    IF X.miniscript_type # "B" \/ X.miniscript_mod_d = 0 \/ X.miniscript_mod_u = 0
    THEN InvalidType
    ELSE IF Y.miniscript_type # Z.miniscript_type THEN InvalidType
    ELSE IF Y.miniscript_type = "W" THEN InvalidType
    ELSE Ok(Miniscript(
        Y.miniscript_type,
        BitAnd(BitAnd(X.miniscript_mod_z, Y.miniscript_mod_z), Z.miniscript_mod_z),
        BitOr(BitAnd(BitAnd(X.miniscript_mod_z, Y.miniscript_mod_o), Z.miniscript_mod_o),
              BitAnd(BitAnd(X.miniscript_mod_o, Y.miniscript_mod_z), Z.miniscript_mod_z)),
        0,
        Z.miniscript_mod_d,
        BitOr(Y.miniscript_mod_u, Z.miniscript_mod_u)))

\* andor(X, Y, Z): X is Bdu; Y and Z are both B, K, or V
andor_flags(X, Y, Z) ==
    IF X.miniscript_type # "B" \/ X.miniscript_mod_d = 0 \/ X.miniscript_mod_u = 0
    THEN InvalidType
    ELSE IF Y.miniscript_type # Z.miniscript_type THEN InvalidType
    ELSE IF Y.miniscript_type = "W" THEN InvalidType
    ELSE Ok(Miniscript(
        Y.miniscript_type,
        BitAnd(BitAnd(X.miniscript_mod_z, Y.miniscript_mod_z), Z.miniscript_mod_z),
        BitOr(BitAnd(BitAnd(X.miniscript_mod_z, Y.miniscript_mod_o), Z.miniscript_mod_o),
              BitAnd(BitAnd(X.miniscript_mod_o, Y.miniscript_mod_z), Z.miniscript_mod_z)),
        0,
        Z.miniscript_mod_d,
        BitAnd(Y.miniscript_mod_u, Z.miniscript_mod_u)))

\* and_v(X,Y): X is V; Y is B, K, or V
and_v_flags(X, Y) ==
    IF X.miniscript_type # "V" THEN InvalidType
    ELSE IF Y.miniscript_type = "W" THEN InvalidType
    ELSE Ok(Miniscript(
        Y.miniscript_type,
        BitAnd(X.miniscript_mod_z, Y.miniscript_mod_z),
        BitOr(BitAnd(X.miniscript_mod_z, Y.miniscript_mod_o),
              BitAnd(X.miniscript_mod_o, Y.miniscript_mod_z)),
        BitOr(X.miniscript_mod_n, BitAnd(X.miniscript_mod_z, Y.miniscript_mod_n)),
        0,
        Y.miniscript_mod_u))

\* and_b(X,Y): X is B; Y is W
and_b_flags(X, Y) ==
    IF X.miniscript_type # "B" \/ Y.miniscript_type # "W" THEN InvalidType
    ELSE Ok(Miniscript(
        "B",
        BitAnd(X.miniscript_mod_z, Y.miniscript_mod_z),
        BitOr(BitAnd(X.miniscript_mod_z, Y.miniscript_mod_o),
              BitAnd(X.miniscript_mod_o, Y.miniscript_mod_z)),
        BitOr(X.miniscript_mod_n, BitAnd(X.miniscript_mod_z, Y.miniscript_mod_n)),
        BitAnd(X.miniscript_mod_d, Y.miniscript_mod_d),
        Y.miniscript_mod_u))

\* and_n(X, Y): X is Bdu; Y is B
and_n_flags(X, Y) ==
    IF X.miniscript_type # "B" \/ X.miniscript_mod_d = 0 \/ X.miniscript_mod_u = 0
    THEN InvalidType
    ELSE IF Y.miniscript_type # "B" THEN InvalidType
    ELSE Ok(Miniscript(
        "B",
        BitAnd(X.miniscript_mod_z, Y.miniscript_mod_z),
        BitAnd(X.miniscript_mod_o, Y.miniscript_mod_z),
        0,
        1,
        Y.miniscript_mod_u))

\* or_b(X, Z): X is Bd; Z is Wd
or_b_flags(X, Z) ==
    IF X.miniscript_type # "B" \/ X.miniscript_mod_d = 0 THEN InvalidType
    ELSE IF Z.miniscript_type # "W" \/ Z.miniscript_mod_d = 0 THEN InvalidType
    ELSE Ok(Miniscript(
        "B",
        BitAnd(X.miniscript_mod_z, Z.miniscript_mod_z),
        BitOr(BitAnd(X.miniscript_mod_z, Z.miniscript_mod_o),
              BitAnd(X.miniscript_mod_o, Z.miniscript_mod_z)),
        0,
        1,
        1))

\* or_c that hands the u of X on to its result
or_c_flags_u_of_X(X, Z) ==
    IF X.miniscript_type # "B" \/ X.miniscript_mod_d = 0 \/ X.miniscript_mod_u = 0
    THEN InvalidType
    ELSE IF Z.miniscript_type # "V" THEN InvalidType
    ELSE Ok(Miniscript(
        "V",
        BitAnd(X.miniscript_mod_z, Z.miniscript_mod_z),
        BitAnd(X.miniscript_mod_o, Z.miniscript_mod_o),
        0,
        0,
        X.miniscript_mod_u))

\* or_c(X, Z): X is Bdu; Z is V
or_c_flags(X, Z) ==
    IF X.miniscript_type # "B" \/ X.miniscript_mod_d = 0 \/ X.miniscript_mod_u = 0
    THEN InvalidType
    ELSE IF Z.miniscript_type # "V" THEN InvalidType
    ELSE Ok(Miniscript(
        "V",
        BitAnd(X.miniscript_mod_z, Z.miniscript_mod_z),
        BitAnd(X.miniscript_mod_o, Z.miniscript_mod_o),
        0,
        0,
        0))

\* or_d(X, Z): X is Bdu; Z is B
or_d_flags(X, Z) ==
    IF X.miniscript_type # "B" \/ X.miniscript_mod_d = 0 \/ X.miniscript_mod_u = 0
    THEN InvalidType
    ELSE IF Z.miniscript_type # "B" THEN InvalidType
    ELSE Ok(Miniscript(
        "B",
        BitAnd(X.miniscript_mod_z, Z.miniscript_mod_z),
        BitAnd(X.miniscript_mod_o, Z.miniscript_mod_o),
        0,
        Z.miniscript_mod_d,
        Z.miniscript_mod_u))

\* or_i(X, Z): both are B, K, or V
or_i_flags(X, Z) ==
    IF X.miniscript_type = "W" THEN InvalidType
    ELSE IF X.miniscript_type # Z.miniscript_type THEN InvalidType
    ELSE Ok(Miniscript(
        X.miniscript_type,
        0,
        BitAnd(X.miniscript_mod_z, Z.miniscript_mod_z),
        0,
        BitOr(X.miniscript_mod_d, Z.miniscript_mod_d),
        BitAnd(X.miniscript_mod_u, Z.miniscript_mod_u)))

\* the case of parse_script's switch that handles a two-children fragment
script2_flags(token, X, Y) ==
    CASE token = "AND_V" -> and_v_flags(X, Y)
      [] token = "AND_B" -> and_b_flags(X, Y)
      [] token = "AND_N" -> and_n_flags(X, Y)
      [] token = "OR_B"  -> or_b_flags(X, Y)
      [] token = "OR_C"  -> or_c_flags(X, Y)
      [] token = "OR_D"  -> or_d_flags(X, Y)
      [] token = "OR_I"  -> or_i_flags(X, Y)

\* thresh with o set without counting the children that have o
thresh_flags_no_count_o(n, count_z, count_o) ==
    Miniscript("B",
               IF count_z = n THEN 1 ELSE 0,
               IF count_z = n - 1 THEN 1 ELSE 0,
               0, 0, 0)

\* thresh(k, X1, ..., Xn) once every child passed its check
thresh_flags(n, count_z, count_o) ==
    Miniscript("B",
               IF count_z = n THEN 1 ELSE 0,
               IF count_z = n - 1 /\ count_o = 1 THEN 1 ELSE 0,
               0, 0, 0)

\* the check of one child of thresh; n is the child's number, from 1
thresh_child_ok(n, X) ==
    /\ IF n = 1 THEN X.miniscript_type = "B" ELSE X.miniscript_type = "W"
    /\ X.miniscript_mod_d # 0
    /\ X.miniscript_mod_u # 0

\* the error of the first check that the child X, the n-th, fails
thresh_child_error(n, X) ==
    IF n = 1 /\ X.miniscript_type # "B"
    THEN "the first children of thresh must be of type B"
    ELSE IF n # 1 /\ X.miniscript_type # "W"
    THEN "each child of thresh (except the first) must be of type W"
    ELSE "each child of thresh must have properties d and u"

\* the wrappers with s applied to any B, as a is
wrapper_flags_s_any(type, X) ==
    LET X_type == X.miniscript_type
        X_z == X.miniscript_mod_z
        X_o == X.miniscript_mod_o
        X_n == X.miniscript_mod_n
        X_d == X.miniscript_mod_d
        X_u == X.miniscript_mod_u
    IN  CASE type = "A" ->
               IF X_type # "B" THEN InvalidType
               ELSE Ok(Miniscript("W", 0, 0, 0, X_d, X_u))
          [] type = "S" ->
               IF X_type # "B" THEN InvalidType
               ELSE Ok(Miniscript("W", 0, 0, 0, X_d, X_u))
          [] type = "C" ->
               IF X_type # "K" THEN InvalidType
               ELSE Ok(Miniscript("B", 0, X_o, X_n, X_d, 1))
          [] type = "T" ->
               IF X_type # "V" THEN InvalidType
               ELSE Ok(Miniscript("B", X_z, X_o, X_n, 0, 1))
          [] type = "D" ->
               IF X_type # "V" \/ X_z = 0 THEN InvalidType
               ELSE Ok(Miniscript("B", 0, 1, 1, 1, 0))
          [] type = "V" ->
               IF X_type # "B" THEN InvalidType
               ELSE Ok(Miniscript("V", X_z, X_o, X_n, 0, 0))
          [] type = "J" ->
               IF X_type # "B" \/ X_n = 0 THEN InvalidType
               ELSE Ok(Miniscript("B", 0, X_o, 1, 1, X_u))
          [] type = "N" ->
               IF X_type # "B" THEN InvalidType
               ELSE Ok(Miniscript("B", X_z, X_o, X_n, X_d, 1))
          [] type = "L" ->
               IF X_type # "B" THEN InvalidType
               ELSE Ok(Miniscript("B", 0, X_z, 0, 1, X_u))
          [] type = "U" ->
               IF X_type # "B" THEN InvalidType
               ELSE Ok(Miniscript("B", 0, X_z, 0, 1, X_u))

\* the wrapper `type` applied to a child with flags X
wrapper_flags(type, X) ==
    LET X_type == X.miniscript_type
        X_z == X.miniscript_mod_z
        X_o == X.miniscript_mod_o
        X_n == X.miniscript_mod_n
        X_d == X.miniscript_mod_d
        X_u == X.miniscript_mod_u
    IN  CASE type = "A" ->
               IF X_type # "B" THEN InvalidType
               ELSE Ok(Miniscript("W", 0, 0, 0, X_d, X_u))
          [] type = "S" ->
               IF X_type # "B" \/ X_o = 0 THEN InvalidType
               ELSE Ok(Miniscript("W", 0, 0, 0, X_d, X_u))
          [] type = "C" ->
               IF X_type # "K" THEN InvalidType
               ELSE Ok(Miniscript("B", 0, X_o, X_n, X_d, 1))
          [] type = "T" ->
               IF X_type # "V" THEN InvalidType
               ELSE Ok(Miniscript("B", X_z, X_o, X_n, 0, 1))
          [] type = "D" ->
               IF X_type # "V" \/ X_z = 0 THEN InvalidType
               ELSE Ok(Miniscript("B", 0, 1, 1, 1, 0))
          [] type = "V" ->
               IF X_type # "B" THEN InvalidType
               ELSE Ok(Miniscript("V", X_z, X_o, X_n, 0, 0))
          [] type = "J" ->
               IF X_type # "B" \/ X_n = 0 THEN InvalidType
               ELSE Ok(Miniscript("B", 0, X_o, 1, 1, X_u))
          [] type = "N" ->
               IF X_type # "B" THEN InvalidType
               ELSE Ok(Miniscript("B", X_z, X_o, X_n, X_d, 1))
          [] type = "L" ->
               IF X_type # "B" THEN InvalidType
               ELSE Ok(Miniscript("B", 0, X_z, 0, 1, X_u))
          [] type = "U" ->
               IF X_type # "B" THEN InvalidType
               ELSE Ok(Miniscript("B", 0, X_z, 0, 1, X_u))

\* the leaf flags with pkh given the o of pk
leaf_flags_pkh_o(token) ==
    CASE token = "0"    -> Miniscript("B", 1, 0, 0, 1, 1)
      [] token = "1"    -> Miniscript("B", 1, 0, 0, 0, 1)
      [] token \in {"SHA256", "HASH256"}   -> Miniscript("B", 1, 1, 0, 1, 1)
      [] token \in {"RIPEMD160", "HASH160"} -> Miniscript("B", 1, 1, 0, 1, 1)
      [] token = "PK"   -> Miniscript("B", 0, 1, 1, 1, 1)
      [] token = "PKH"  -> Miniscript("B", 0, 1, 1, 1, 1)
      [] token = "PK_K" -> Miniscript("K", 0, 1, 1, 1, 1)
      [] token = "PK_H" -> Miniscript("K", 0, 0, 1, 1, 1)
      [] token \in {"OLDER", "AFTER"} -> Miniscript("B", 1, 0, 0, 0, 0)
      [] token = "MULTI" -> Miniscript("B", 0, 0, 1, 1, 1)
      [] token \in {"WPKH", "TR", "SH", "WSH", "SORTEDMULTI"} -> NotMiniscript

\* flags that take sortedmulti for a miniscript fragment like multi
leaf_flags_sortedmulti_b(token) ==
    CASE token = "0"    -> Miniscript("B", 1, 0, 0, 1, 1)
      [] token = "1"    -> Miniscript("B", 1, 0, 0, 0, 1)
      [] token \in {"SHA256", "HASH256"}   -> Miniscript("B", 1, 1, 0, 1, 1)
      [] token \in {"RIPEMD160", "HASH160"} -> Miniscript("B", 1, 1, 0, 1, 1)
      [] token = "PK"   -> Miniscript("B", 0, 1, 1, 1, 1)
      [] token = "PKH"  -> Miniscript("B", 0, 0, 1, 1, 1)
      [] token = "PK_K" -> Miniscript("K", 0, 1, 1, 1, 1)
      [] token = "PK_H" -> Miniscript("K", 0, 0, 1, 1, 1)
      [] token \in {"OLDER", "AFTER"} -> Miniscript("B", 1, 0, 0, 0, 0)
      [] token \in {"MULTI", "SORTEDMULTI"} -> Miniscript("B", 0, 0, 1, 1, 1)
      [] token \in {"WPKH", "TR", "SH", "WSH"} -> NotMiniscript

\* flags of the fragments without children
leaf_flags(token) ==
    CASE token = "0"    -> Miniscript("B", 1, 0, 0, 1, 1)
      [] token = "1"    -> Miniscript("B", 1, 0, 0, 0, 1)
      [] token \in {"SHA256", "HASH256"}   -> Miniscript("B", 1, 1, 0, 1, 1)
      [] token \in {"RIPEMD160", "HASH160"} -> Miniscript("B", 1, 1, 0, 1, 1)
      [] token = "PK"   -> Miniscript("B", 0, 1, 1, 1, 1)
      [] token = "PKH"  -> Miniscript("B", 0, 0, 1, 1, 1)
      [] token = "PK_K" -> Miniscript("K", 0, 1, 1, 1, 1)
      [] token = "PK_H" -> Miniscript("K", 0, 0, 1, 1, 1)
      [] token \in {"OLDER", "AFTER"} -> Miniscript("B", 1, 0, 0, 0, 0)
      [] token = "MULTI" -> Miniscript("B", 0, 0, 1, 1, 1)
      [] token \in {"WPKH", "TR", "SH", "WSH", "SORTEDMULTI"} -> NotMiniscript

---------------------------------------------------------------------------
(* parse_script.  Each operator below is one stretch of the function; the  *)
(* values a stretch computed are handed to the next one as arguments.      *)

CONTEXT_WITHIN_SH == 1

CONTEXT_WITHIN_WSH == 2

MAX_POLICY_MAP_COSIGNERS == 16

\* what parse_script and the cases of its switch return: ok is "returned 0";
\* node is parsed_node; err is the message of the WITH_ERROR that failed
Fail(err, pos, out) == [ok |-> FALSE, err |-> err, pos |-> pos, out |-> out, node |-> NULL]

Done(pos, out, node) == [ok |-> TRUE, err |-> "", pos |-> pos, out |-> out, node |-> node]

SetFlags(out, node, flags) == [out EXCEPT !.cells[node].flags = flags]

FlagsOf(out, node) == out.cells[node].flags

\* the flags of the i-th child of node
ChildFlags(out, node, i) == out.cells[out.cells[node].scripts[i]].flags

\* the end of a case that computes flags f for node: an error, or the flags set
SetChecked(r, node, f, err) ==
    IF ~f.ok THEN Fail(err, r.pos, r.out)
    ELSE Done(r.pos, SetFlags(r.out, node, f.flags), node)

\* the token a wrapper letter stands for
\* a switch whose cases for a and s set each other's type
wrapper_token_swapped(c) ==
    CASE c = "a" -> "S" [] c = "s" -> "A" [] c = "c" -> "C" [] c = "t" -> "T"
      [] c = "d" -> "D" [] c = "v" -> "V" [] c = "j" -> "J" [] c = "n" -> "N"
      [] c = "l" -> "L" [] c = "u" -> "U"

wrapper_token(c) ==
    CASE c = "a" -> "A" [] c = "s" -> "S" [] c = "c" -> "C" [] c = "t" -> "T"
      [] c = "d" -> "D" [] c = "v" -> "V" [] c = "j" -> "J" [] c = "n" -> "N"
      [] c = "l" -> "L" [] c = "u" -> "U"

RECURSIVE count_wrappers_without_c(_, _, _)
\* a look-ahead whose table has no entry for c
count_wrappers_without_c(buf, pos, n_wrappers) ==
    IF buffer_peek_n(buf, pos, n_wrappers) \in LowerAlpha \ {"c"}
       /\ is_valid_miniscript_wrapper[buffer_peek_n(buf, pos, n_wrappers)]
    THEN count_wrappers_without_c(buf, pos, n_wrappers + 1)
    ELSE n_wrappers

RECURSIVE count_wrappers(_, _, _)
\* the look-ahead of parse_script: how many wrapper letters follow the cursor
count_wrappers(buf, pos, n_wrappers) ==
    IF buffer_peek_n(buf, pos, n_wrappers) \in LowerAlpha
       /\ is_valid_miniscript_wrapper[buffer_peek_n(buf, pos, n_wrappers)]
    THEN count_wrappers(buf, pos, n_wrappers + 1)
    ELSE n_wrappers

\* the arena after one wrapper node is allocated and linked under inner_wrapper
alloc_wrapper(out, c, inner_wrapper) ==
    IF inner_wrapper # NULL
    THEN [buffer_alloc(out, "policy_node_with_script_t", NewNode(wrapper_token(c)))
            EXCEPT !.cells[inner_wrapper].scripts = <<buffer_get_cur(out)>>]
    ELSE buffer_alloc(out, "policy_node_with_script_t", NewNode(wrapper_token(c)))

RECURSIVE parse_wrappers(_, _, _, _, _, _)
\* the loop that allocates one node per wrapper letter, outermost first, and
\* then skips the ":"; node is inner_wrapper
parse_wrappers(buf, pos, out, i, n_wrappers, inner_wrapper) ==
    IF i >= n_wrappers THEN Done(pos + 1, out, inner_wrapper)
    ELSE IF ~buffer_alloc_ok(out, "policy_node_with_script_t")
    THEN Fail("Out of memory", pos, out)
    ELSE parse_wrappers(buf, pos + 1, alloc_wrapper(out, buffer_peek(buf, pos), inner_wrapper),
                        i + 1, n_wrappers, buffer_get_cur(out))

RECURSIVE traverse(_, _, _)
\* the node reached from `node` after following script j times
traverse(out, node, j) ==
    IF j = 0 THEN node ELSE traverse(out, out.cells[node].scripts[1], j - 1)

RECURSIVE apply_wrappers(_, _, _, _)
\* one wrapper of the loop below: node is the wrapper, X the flags of its child
apply_wrapper(pos, out, outermost_node, i, node, X) ==
    IF X.is_miniscript = 0
    THEN Fail("wrappers can only be applied to miniscript", pos, out)
    ELSE IF ~wrapper_flags(out.cells[node].type, X).ok
    THEN Fail("wrapper requires another type of child", pos, out)
    ELSE apply_wrappers(pos, SetFlags(out, node, wrapper_flags(out.cells[node].type, X).flags),
                        outermost_node, i - 1)

\* the loop that validates and computes the flags of the wrappers, innermost first
apply_wrappers(pos, out, outermost_node, i) ==
    IF i < 0 THEN Done(pos, out, outermost_node)
    ELSE apply_wrapper(pos, out, outermost_node, i, traverse(out, outermost_node, i),
                       ChildFlags(out, traverse(out, outermost_node, i), 1))

RECURSIVE buffer_read_hex_hash(_, _, _, _)
\* buffer_read_hex_hash after its length check: the n bytes, or <<-1>> on a bad digit
buffer_read_hex_hash(buf, pos, n, h) ==
    IF n = 0 THEN h
    ELSE IF ~is_lowercase_hex(buf[pos + 1]) \/ ~is_lowercase_hex(buf[pos + 2]) THEN <<-1>>
    ELSE buffer_read_hex_hash(buf, pos + 2, n - 1,
             Append(h, 16 * lowercase_hex_to_int(buf[pos + 1])
                       + lowercase_hex_to_int(buf[pos + 2])))

RECURSIVE parse_script(_, _, _, _, _)
RECURSIVE parse_child_scripts(_, _, _, _, _, _, _)
RECURSIVE parse_thresh_loop(_, _, _, _, _, _, _, _)

\* case TOKEN_0, TOKEN_1
parse_constant(token, buf, pos, out) ==
    IF ~buffer_alloc_ok(out, "policy_node_constant_t") THEN Fail("Out of memory", pos, out)
    ELSE Done(pos,
              SetFlags(buffer_alloc(out, "policy_node_constant_t", NewNode(token)),
                       buffer_get_cur(out), leaf_flags(token)),
              buffer_get_cur(out))

\* case TOKEN_SH, TOKEN_WSH: the return after the inner script is parsed
parse_sh_wsh_end(node, r) == IF ~r.ok THEN r ELSE Done(r.pos, r.out, node)

\* case TOKEN_SH, TOKEN_WSH: the node with its script pointer at the current position
alloc_sh_wsh(token, out) ==
    [SetFlags(buffer_alloc(out, "policy_node_with_script_t", NewNode(token)),
              buffer_get_cur(out), leaf_flags(token))
       EXCEPT !.cells[buffer_get_cur(out)].scripts = <<buffer_get_cur(out) + 1>>]

\* the check of sh: depth != 0 is an error
sh_depth_ok(depth) == ~(depth # 0)

\* the check of wsh as a check of the depth alone
wsh_context_ok_depth(depth, context_flags) == ~(depth > 1)

\* the check of wsh: depth != 0 without CONTEXT_WITHIN_SH is an error
wsh_context_ok(depth, context_flags) ==
    ~(depth # 0 /\ CONTEXT_WITHIN_SH \notin context_flags)

\* case TOKEN_SH, TOKEN_WSH
parse_sh_wsh(token, buf, pos, out, depth, context_flags) ==
    IF token = "SH" /\ ~sh_depth_ok(depth)
    THEN Fail("sh can only be a top-level function", pos, out)
    ELSE IF token = "WSH" /\ ~wsh_context_ok(depth, context_flags)
    THEN Fail("wsh can only be top-level or inside sh", pos, out)
    ELSE IF ~buffer_alloc_ok(out, "policy_node_with_script_t")
    THEN Fail("Out of memory", pos, out)
    ELSE parse_sh_wsh_end(
             buffer_get_cur(out),
             parse_script(buf, pos, alloc_sh_wsh(token, out), depth + 1,
                          IF token = "SH" THEN {CONTEXT_WITHIN_SH} ELSE {CONTEXT_WITHIN_WSH}))

\* case TOKEN_SHA256, ...: the return once the hash image h is read
parse_hash_end(token, pos, out, node, h) ==
    IF h = <<-1>> THEN Fail("Failed to parse hash image", pos, out)
    ELSE Done(pos + 2 * Len(h),
              [SetFlags(out, node, leaf_flags(token)) EXCEPT !.cells[node].h = h],
              node)

hash_struct(token) ==
    IF token \in {"SHA256", "HASH256"}
    THEN "policy_node_with_hash_256_t" ELSE "policy_node_with_hash_160_t"

hash_len(token) == IF token \in {"SHA256", "HASH256"} THEN 32 ELSE 20

\* case TOKEN_SHA256, TOKEN_HASH256, TOKEN_RIPEMD160, TOKEN_HASH160
parse_hash(token, buf, pos, out) ==
    IF ~buffer_alloc_ok(out, hash_struct(token)) THEN Fail("Out of memory", pos, out)
    ELSE parse_hash_end(token, pos, buffer_alloc(out, hash_struct(token), NewNode(token)),
                        buffer_get_cur(out),
                        IF buffer_can_read(buf, pos, 2 * hash_len(token))
                        THEN buffer_read_hex_hash(buf, pos, hash_len(token), <<>>)
                        ELSE <<-1>>)

\* parse_child_scripts after child child_index is parsed with result r
parse_child_scripts_next(buf, depth, node, child_index, n_children, r) ==
    IF ~r.ok THEN r
    ELSE IF child_index <= n_children - 2
    THEN IF consume_character(buf, r.pos, ",") = -1 THEN Fail("Expected ','", r.pos, r.out)
         ELSE parse_child_scripts(buf, r.pos + 1, r.out, depth, node, child_index + 1,
                                  n_children)
    ELSE parse_child_scripts(buf, r.pos, r.out, depth, node, child_index + 1, n_children)

\* parse_child_scripts; child_scripts is node->scripts
parse_child_scripts(buf, pos, out, depth, node, child_index, n_children) ==
    IF child_index >= n_children THEN Done(pos, out, node)
    ELSE parse_child_scripts_next(
             buf, depth, node, child_index, n_children,
             parse_script(buf, pos,
                          [out EXCEPT !.cells[node].scripts = Append(@, buffer_get_cur(out))],
                          depth + 1, {}))

\* case TOKEN_ANDOR after the children are parsed
parse_andor_end(node, r) ==
    IF ~r.ok THEN r
    ELSE IF \E i \in 1..3 : ChildFlags(r.out, node, i).is_miniscript = 0
    THEN Fail("children of andor must be miniscript", r.pos, r.out)
    ELSE SetChecked(r, node,
                    andor_flags(ChildFlags(r.out, node, 1), ChildFlags(r.out, node, 2),
                                ChildFlags(r.out, node, 3)),
                    "invalid type")

\* case TOKEN_ANDOR
parse_andor(token, buf, pos, out, depth) ==
    IF ~buffer_alloc_ok(out, "policy_node_with_script3_t")
    THEN Fail("Out of memory", pos, out)
    ELSE parse_andor_end(
             buffer_get_cur(out),
             parse_child_scripts(buf, pos,
                 buffer_alloc(out, "policy_node_with_script3_t", NewNode(token)),
                 depth, buffer_get_cur(out), 0, 3))

\* case TOKEN_AND_V, ... after the children are parsed
parse_script2_end(token, node, r) ==
    IF ~r.ok THEN r
    ELSE IF ChildFlags(r.out, node, 1).is_miniscript = 0
            \/ ChildFlags(r.out, node, 2).is_miniscript = 0
    THEN Fail("children of or_d must be miniscript", r.pos, r.out)
    ELSE SetChecked(r, node,
                    script2_flags(token, ChildFlags(r.out, node, 1),
                                  ChildFlags(r.out, node, 2)),
                    "invalid type")

\* case TOKEN_AND_V, TOKEN_AND_B, TOKEN_AND_N, TOKEN_OR_B, TOKEN_OR_C, TOKEN_OR_D, TOKEN_OR_I
parse_script2(token, buf, pos, out, depth) ==
    IF ~buffer_alloc_ok(out, "policy_node_with_script2_t")
    THEN Fail("Out of memory", pos, out)
    ELSE parse_script2_end(
             token, buffer_get_cur(out),
             parse_child_scripts(buf, pos,
                 buffer_alloc(out, "policy_node_with_script2_t", NewNode(token)),
                 depth, buffer_get_cur(out), 0, 2))

\* the only check thresh makes of its threshold: node->k < 1 is an error
thresh_k_ok(k) == ~SizeT_Lt(k, SizeT(1))

\* the loop of thresh after a child passed its checks: another child, or the end
parse_thresh_loop_next(buf, depth, node, cur, count_z, count_o, r) ==
    IF consume_character(buf, r.pos, ",") # -1
    THEN IF ~buffer_alloc_ok(r.out, "policy_node_scriptlist_t")
         THEN Fail("Out of memory", r.pos + 1, r.out)
         ELSE parse_thresh_loop(
                  buf, r.pos + 1,
                  [buffer_alloc(r.out, "policy_node_scriptlist_t", NewScriptlist)
                     EXCEPT !.cells[cur].next = buffer_get_cur(r.out)],
                  depth, node, buffer_get_cur(r.out), count_z, count_o)
    ELSE Done(r.pos,
              SetFlags(r.out, node, thresh_flags(r.out.cells[node].n, count_z, count_o)),
              node)

\* the loop of thresh after the child cur->script is parsed with result r and flags X
parse_thresh_loop_child(buf, depth, node, cur, count_z, count_o, r, X) ==
    IF X.is_miniscript = 0
    THEN Fail("children of thresh must be miniscript", r.pos, r.out)
    ELSE IF ~thresh_child_ok(r.out.cells[node].n, X)
    THEN Fail(thresh_child_error(r.out.cells[node].n, X), r.pos, r.out)
    ELSE parse_thresh_loop_next(
             buf, depth, node, cur,
             IF X.miniscript_mod_z # 0 THEN count_z + 1 ELSE count_z,
             IF X.miniscript_mod_o # 0 THEN count_o + 1 ELSE count_o,
             r)

parse_thresh_loop_parsed(buf, depth, node, cur, count_z, count_o, r) ==
    IF ~r.ok THEN r
    ELSE parse_thresh_loop_child(buf, depth, node, cur, count_z, count_o, r,
                                 FlagsOf(r.out, r.out.cells[cur].script))

\* the while (true) loop of case TOKEN_THRESH, at ++node->n
parse_thresh_loop(buf, pos, out, depth, node, cur, count_z, count_o) ==
    parse_thresh_loop_parsed(
        buf, depth, node, cur, count_z, count_o,
        parse_script(buf, pos,
                     [out EXCEPT !.cells[node].n = @ + 1,
                                 !.cells[cur].script = buffer_get_cur(out)],
                     depth + 1, {}))

\* case TOKEN_THRESH once the threshold k is read
parse_thresh_k(buf, depth, node, out, k) ==
    IF ~k.ok THEN Fail("Error parsing threshold", k.pos, out)
    ELSE IF consume_character(buf, k.pos, ",") = -1
    THEN Fail("Expected a comma", k.pos, [out EXCEPT !.cells[node].k = k.out])
    ELSE IF ~thresh_k_ok(k.out)
    THEN Fail("Threshold must be at least 1", k.pos + 1, [out EXCEPT !.cells[node].k = k.out])
    ELSE IF ~buffer_alloc_ok(out, "policy_node_scriptlist_t")
    THEN Fail("Out of memory", k.pos + 1, [out EXCEPT !.cells[node].k = k.out])
    ELSE parse_thresh_loop(
             buf, k.pos + 1,
             [buffer_alloc(out, "policy_node_scriptlist_t", NewScriptlist)
                EXCEPT !.cells[node].k = k.out, !.cells[node].ptr = buffer_get_cur(out)],
             depth, node, buffer_get_cur(out), 0, 0)

\* case TOKEN_THRESH
parse_thresh(token, buf, pos, out, depth) ==
    IF ~buffer_alloc_ok(out, "policy_node_thresh_t") THEN Fail("Out of memory", pos, out)
    ELSE parse_thresh_k(buf, depth, buffer_get_cur(out),
                        buffer_alloc(out, "policy_node_thresh_t", NewNode(token)),
                        parse_unsigned_decimal(buf, pos))

\* the end of a case that reads one key index: key is what parse_key_index returned
parse_key_end(token, out, node, key) ==
    IF key.k = SizeT_Max THEN Fail("Couldn't parse key index", key.pos, out)
    ELSE Done(key.pos,
              [SetFlags(out, node, leaf_flags(token)) EXCEPT !.cells[node].key_index = key.k],
              node)

\* the check of wpkh: depth > 0 without CONTEXT_WITHIN_SH is an error
wpkh_context_ok(depth, context_flags) ==
    ~(depth > 0 /\ CONTEXT_WITHIN_SH \notin context_flags)

\* case TOKEN_PK, TOKEN_PKH, TOKEN_PK_K, TOKEN_PK_H, TOKEN_WPKH
parse_key(token, buf, pos, out, depth, context_flags) ==
    IF ~buffer_alloc_ok(out, "policy_node_with_key_t") THEN Fail("Out of memory", pos, out)
    ELSE IF token = "WPKH" /\ ~wpkh_context_ok(depth, context_flags)
    THEN Fail("wpkh can only be top-level or inside sh", pos,
              buffer_alloc(out, "policy_node_with_key_t", NewNode(token)))
    ELSE parse_key_end(token, buffer_alloc(out, "policy_node_with_key_t", NewNode(token)),
                       buffer_get_cur(out), parse_key_index(buf, pos))

\* the depth check of case TOKEN_TR
tr_depth_ok(depth) == ~(depth > 1)

\* case TOKEN_TR
parse_tr(token, buf, pos, out, depth) ==
    IF ~buffer_alloc_ok(out, "policy_node_with_key_t") THEN Fail("Out of memory", pos, out)
    ELSE IF ~tr_depth_ok(depth)
    THEN Fail("tr can only be top-level", pos,
              buffer_alloc(out, "policy_node_with_key_t", NewNode(token)))
    ELSE parse_key_end(token, buffer_alloc(out, "policy_node_with_key_t", NewNode(token)),
                       buffer_get_cur(out), parse_key_index(buf, pos))

\* the range check of case TOKEN_OLDER, TOKEN_AFTER on the value read
older_after_n_ok(n) == ~(SizeT_Lt(n, SizeT(1)) \/ ~SizeT_Lt(n, TwoTo31))

\* case TOKEN_OLDER, TOKEN_AFTER once the number n is read
parse_older_after_end(token, out, node, n) ==
    IF ~n.ok THEN Fail("Error parsing number", n.pos, out)
    ELSE IF ~older_after_n_ok(n.out)
    THEN Fail("n must satisfy 1 <= n < 2^31 in older/after", n.pos,
              [out EXCEPT !.cells[node].num = n.out])
    ELSE Done(n.pos,
              [SetFlags(out, node, leaf_flags(token)) EXCEPT !.cells[node].num = n.out],
              node)

\* case TOKEN_OLDER, TOKEN_AFTER
parse_older_after(token, buf, pos, out) ==
    IF ~buffer_alloc_ok(out, "policy_node_with_uint32_t")
    THEN Fail("Out of memory", pos, out)
    ELSE parse_older_after_end(
             token, buffer_alloc(out, "policy_node_with_uint32_t", NewNode(token)),
             buffer_get_cur(out), parse_unsigned_decimal(buf, pos))

\* the context check of sortedmulti with || in the place of &&
sortedmulti_context_ok_either(context_flags) ==
    ~(CONTEXT_WITHIN_SH \in context_flags \/ CONTEXT_WITHIN_WSH \in context_flags)

\* the context check of sortedmulti: TRUE when the parse goes on
sortedmulti_context_ok(context_flags) ==
    ~(CONTEXT_WITHIN_SH \in context_flags /\ CONTEXT_WITHIN_WSH \in context_flags)

\* check integrity of k and n
multi_k_n_ok(k, n) ==
    SizeT_Le(SizeT(1), k) /\ SizeT_Le(k, SizeT(n)) /\ n <= MAX_POLICY_MAP_COSIGNERS

RECURSIVE parse_multi_loop(_, _, _, _)
\* the loop of multi once a key index is read
parse_multi_loop_key(buf, out, node, key) ==
    IF key.k = SizeT_Max THEN Fail("Error parsing key index", key.pos, out)
    ELSE IF ~buffer_alloc_ok(out, "size_t") THEN Fail("Out of memory", key.pos, out)
    ELSE parse_multi_loop(buf, key.pos,
                          [buffer_alloc(out, "size_t", NewKeyIndex(key.k))
                             EXCEPT !.cells[node].n = @ + 1],
                          node)

\* the while (true) loop of case TOKEN_MULTI, TOKEN_SORTEDMULTI
parse_multi_loop(buf, pos, out, node) ==
    IF buffer_peek(buf, pos) = ")" THEN Done(pos, out, node)
    ELSE IF consume_character(buf, pos, ",") = -1 THEN Fail("Expected ','", pos, out)
    ELSE parse_multi_loop_key(buf, out, node, parse_key_index(buf, pos + 1))

\* case TOKEN_MULTI, TOKEN_SORTEDMULTI after the loop
parse_multi_end(token, node, r) ==
    IF ~r.ok THEN r
    ELSE IF ~multi_k_n_ok(r.out.cells[node].k, r.out.cells[node].n)
    THEN Fail("Invalid k and/or n", r.pos, r.out)
    ELSE Done(r.pos, SetFlags(r.out, node, leaf_flags(token)), node)

\* case TOKEN_MULTI, TOKEN_SORTEDMULTI once the threshold k is read
parse_multi_k(token, buf, out, node, k) ==
    IF ~k.ok THEN Fail("Error parsing threshold", k.pos, out)
    ELSE parse_multi_end(
             token, node,
             parse_multi_loop(buf, k.pos,
                              [out EXCEPT !.cells[node].k = k.out,
                                          !.cells[node].ptr = buffer_get_cur(out)],
                              node))

\* case TOKEN_MULTI, TOKEN_SORTEDMULTI
parse_multi(token, buf, pos, out, context_flags) ==
    IF ~buffer_alloc_ok(out, "policy_node_multisig_t") THEN Fail("Out of memory", pos, out)
    ELSE IF token = "SORTEDMULTI" /\ ~sortedmulti_context_ok(context_flags)
    THEN Fail("sortedmulti can only be directly under sh or wsh", pos,
              buffer_alloc(out, "policy_node_multisig_t", NewNode(token)))
    ELSE parse_multi_k(token, buf,
                       buffer_alloc(out, "policy_node_multisig_t", NewNode(token)),
                       buffer_get_cur(out), parse_unsigned_decimal(buf, pos))

\* the switch (token) of parse_script
parse_body(token, buf, pos, out, depth, context_flags) ==
    CASE token \in {"0", "1"} -> parse_constant(token, buf, pos, out)
      [] token \in {"SH", "WSH"} -> parse_sh_wsh(token, buf, pos, out, depth, context_flags)
      [] token \in {"SHA256", "HASH256", "RIPEMD160", "HASH160"} ->
             parse_hash(token, buf, pos, out)
      [] token = "ANDOR" -> parse_andor(token, buf, pos, out, depth)
      [] token \in {"AND_V", "AND_B", "AND_N", "OR_B", "OR_C", "OR_D", "OR_I"} ->
             parse_script2(token, buf, pos, out, depth)
      [] token = "THRESH" -> parse_thresh(token, buf, pos, out, depth)
      [] token \in {"PK", "PKH", "PK_K", "PK_H", "WPKH"} ->
             parse_key(token, buf, pos, out, depth, context_flags)
      [] token = "TR" -> parse_tr(token, buf, pos, out, depth)
      [] token \in {"OLDER", "AFTER"} -> parse_older_after(token, buf, pos, out)
      [] token \in {"MULTI", "SORTEDMULTI"} ->
             parse_multi(token, buf, pos, out, context_flags)
      [] OTHER -> Fail("Unknown token", pos, out)

\* the arena once the innermost wrapper, if any, points to the parsed node
link_inner_wrapper(out, inner_wrapper, parsed_node) ==
    IF inner_wrapper # NULL
    THEN [out EXCEPT !.cells[inner_wrapper].scripts = <<parsed_node>>]
    ELSE out

\* a parser that leaves bytes unread after the outermost production
parse_script_end_unread(buf, pos, depth, outermost_node, n_wrappers, inner_wrapper, body) ==
    apply_wrappers(pos, link_inner_wrapper(body.out, inner_wrapper, body.node),
                   outermost_node, n_wrappers - 1)

\* parse_script from the closing parenthesis on; pos is the cursor after it
parse_script_end(buf, pos, depth, outermost_node, n_wrappers, inner_wrapper, body) ==
    IF depth = 0 /\ buffer_can_read(buf, pos, 1)
    THEN Fail("Input buffer too long", pos, body.out)
    ELSE apply_wrappers(pos, link_inner_wrapper(body.out, inner_wrapper, body.node),
                        outermost_node, n_wrappers - 1)

\* parse_script once the switch returned body
parse_script_close(buf, depth, outermost_node, n_wrappers, inner_wrapper, has_parentheses, body) ==
    IF ~body.ok THEN body
    ELSE IF has_parentheses /\ consume_character(buf, body.pos, ")") = -1
    THEN Fail("Expected ')'", body.pos, body.out)
    ELSE parse_script_end(buf, IF has_parentheses THEN body.pos + 1 ELSE body.pos, depth,
                          outermost_node, n_wrappers, inner_wrapper, body)

\* parse_script once the token tk is read
parse_script_token(buf, depth, context_flags, outermost_node, n_wrappers, w, tk) ==
    IF tk.token \notin {"0", "1"} /\ consume_character(buf, tk.pos, "(") = -1
    THEN Fail("Expected '('", tk.pos, w.out)
    ELSE parse_script_close(
             buf, depth, outermost_node, n_wrappers, w.node, tk.token \notin {"0", "1"},
             parse_body(tk.token, buf,
                        IF tk.token \notin {"0", "1"} THEN tk.pos + 1 ELSE tk.pos,
                        w.out, depth, context_flags))

\* parse_script once the wrappers are allocated; w.node is inner_wrapper
parse_script_body(buf, depth, context_flags, outermost_node, n_wrappers, w) ==
    IF ~w.ok THEN w
    ELSE parse_script_token(buf, depth, context_flags, outermost_node, n_wrappers, w,
                            parse_token(buf, w.pos))

\* parse_script once the look-ahead counted n_run wrapper letters
parse_script_wrappers(buf, pos, out, depth, context_flags, n_run) ==
    parse_script_body(
        buf, depth, context_flags, buffer_get_cur(out),
        IF buffer_peek_n(buf, pos, n_run) = ":" THEN n_run ELSE 0,
        IF buffer_peek_n(buf, pos, n_run) = ":"
        THEN parse_wrappers(buf, pos, out, 0, n_run, NULL)
        ELSE Done(pos, out, NULL))

\* parse_script: [ok, err, pos, out, node], node the outermost node on success
parse_script(buf, pos, out, depth, context_flags) ==
    parse_script_wrappers(buf, pos, out, depth, context_flags, count_wrappers(buf, pos, 0))

\* parse_policy_map with the root parsed behind a cell that is already allocated
parse_policy_map_behind(buf, addr, len) ==
    IF addr % 4 # 0 THEN Fail("Unaligned pointer", 0, buffer_create(len))
    ELSE parse_script(buf, 0,
                      buffer_alloc(buffer_create(len), "policy_node_constant_t", NewNode("0")),
                      0, {})

\* parse_policy_map: parse_script at depth 0 on a fresh arena of len bytes
\* that starts at address addr
parse_policy_map(buf, addr, len) ==
    IF addr % 4 # 0 THEN Fail("Unaligned pointer", 0, buffer_create(len))
    ELSE parse_script(buf, 0, buffer_create(len), 0, {})

---------------------------------------------------------------------------
(* The policies the parser is run on *)

MaxWrappers == 2

MaxThreshChildren == 3

MaxThreshK == 3

MaxMultiK == 2

MaxMultiKeys == 17

MaxKeyIndex == 2

BigArena == 1024

SmallArena == 40

\* the keyword of a token
Name(type) == (CHOOSE i \in DOMAIN KNOWN_TOKENS : KNOWN_TOKENS[i].type = type)
Keyword(type) == KNOWN_TOKENS[Name(type)].name

RECURSIVE Numeral(_)
\* the decimal numeral of a natural number
Numeral(n) ==
    LET d == CHOOSE c \in Digits : DigitValue(c) = n % 10
    IN  IF n < 10 THEN <<d>> ELSE Append(Numeral(n \div 10), d)

RECURSIVE Join(_)
\* the texts of a sequence, separated by commas
Join(args) ==
    IF Len(args) = 0 THEN <<>>
    ELSE IF Len(args) = 1 THEN args[1]
    ELSE args[1] \o <<",">> \o Join(Tail(args))

Call(type, args) == Keyword(type) \o <<"(">> \o Join(args) \o <<")">>

Key(i) == <<"@">> \o Numeral(i)

Wrap(letters, body) == letters \o <<":">> \o body

RECURSIVE Repeat(_, _)
Repeat(text, n) == IF n = 0 THEN <<>> ELSE text \o Repeat(text, n - 1)

\* sequences over S of length 1..n
RECURSIVE SeqsUpTo(_, _)
SeqsUpTo(S, n) ==
    IF n = 0 THEN {}
    ELSE LET shorter == SeqsUpTo(S, n - 1)
         IN  {<<x>> : x \in S} \cup shorter \cup {Append(q, x) : q \in shorter, x \in S}

Hex20 == Repeat(<<"0","1","a","f">>, 10)
Hex32 == Repeat(<<"d","e","a","d","b","e","e","f">>, 8)

KeyTokens == {"PK", "PKH", "PK_K", "PK_H", "WPKH", "TR"}

WrapperLetters == {c \in LowerAlpha : is_valid_miniscript_wrapper[c]}

PK0 == Call("PK", <<Key(0)>>)
PK_K0 == Call("PK_K", <<Key(0)>>)
OLDER1 == Call("OLDER", <<Numeral(1)>>)

\* numerals around the limits of older/after and of the 32-bit word
Numerals ==
    {<<>>, Numeral(0), Numeral(1), Numeral(2), <<"0","1">>, <<"0","0">>, Numeral(65535),
     Numeral(65536), Numeral(2147483647),
     <<"2","1","4","7","4","8","3","6","4","8">>,
     <<"4","2","9","4","9","6","7","2","9","5">>,
     <<"4","2","9","4","9","6","7","2","9","6">>,
     <<"4","2","9","4","9","6","7","2","9","7">>,
     <<"5","0","0","0","0","0","0","0","0","0">>,
     <<"4","2","9","4","9","6","7","2","9","6","0">>,
     <<"9","9","9","9","9","9","9","9","9","9","9","9","9","9","9","9","9","9","9","9">>}

\* fragments without children
Atoms ==
    {<<"0">>, <<"1">>}
    \cup {Call(tok, <<Key(0)>>) : tok \in KeyTokens}
    \cup {Call(tok, <<Numeral(1)>>) : tok \in {"OLDER", "AFTER"}}
    \cup {Call(tok, <<Numeral(1), Key(0)>>) : tok \in {"MULTI", "SORTEDMULTI"}}
    \cup {Call(tok, <<Hex32>>) : tok \in {"SHA256", "HASH256"}}
    \cup {Call(tok, <<Hex20>>) : tok \in {"RIPEMD160", "HASH160"}}

\* one wrapper on every atom; longer runs of wrappers on a few
WrappedAtoms ==
    {Wrap(<<w>>, a) : w \in WrapperLetters, a \in Atoms}
    \cup {Wrap(ws, a) : ws \in SeqsUpTo({"a", "c", "d", "s", "t", "v"}, MaxWrappers),
                        a \in {<<"1">>, PK_K0, OLDER1}}

Script2Tokens == {"AND_V", "AND_B", "AND_N", "OR_B", "OR_C", "OR_D", "OR_I"}

\* children tried under every fragment with two children
Operands ==
    {<<"0">>, <<"1">>, PK0, Call("PKH", <<Key(0)>>), PK_K0, Call("PK_H", <<Key(1)>>), OLDER1,
     Wrap(<<"v">>, PK0), Wrap(<<"v">>, OLDER1), Wrap(<<"v">>, Call("PKH", <<Key(0)>>)),
     Wrap(<<"a">>, PK0), Wrap(<<"a">>, OLDER1), Wrap(<<"a">>, <<"1">>),
     Wrap(<<"d","v">>, OLDER1), Wrap(<<"l">>, OLDER1),
     Call("WPKH", <<Key(0)>>)}

Script2s == {Call(tok, <<x, y>>) : tok \in Script2Tokens, x \in Operands, y \in Operands}

AndorOperands ==
    {<<"0">>, PK0, PK_K0, OLDER1, Wrap(<<"v">>, PK0), Wrap(<<"v">>, OLDER1),
     Wrap(<<"a">>, PK0), Call("HASH160", <<Hex20>>)}

Andors == {Call("ANDOR", q) : q \in [1..3 -> AndorOperands]}

ThreshOperands == {<<"0">>, PK0, Wrap(<<"a">>, PK0), Wrap(<<"a">>, OLDER1), Wrap(<<"s">>, PK0)}

Threshs ==
    {Call("THRESH", <<Numeral(k)>> \o q) :
        k \in 0..MaxThreshK, q \in SeqsUpTo(ThreshOperands, MaxThreshChildren)}
    \cup {Call("THRESH", <<num, PK0>>) : num \in Numerals}

\* accepted fragments with children, used as children in turn
Nested ==
    {Call("AND_V", <<Wrap(<<"v">>, PK0), PK0>>),
     Call("AND_V", <<Wrap(<<"v">>, PK0), Wrap(<<"v">>, OLDER1)>>),
     Call("OR_B", <<PK0, Wrap(<<"a">>, PK0)>>),
     Call("OR_I", <<PK_K0, PK_K0>>),
     Call("OR_C", <<PK0, Wrap(<<"v">>, OLDER1)>>),
     Call("AND_B", <<OLDER1, Wrap(<<"a">>, OLDER1)>>),
     Call("THRESH", <<Numeral(1), PK0, Wrap(<<"s">>, PK0)>>),
     Call("THRESH", <<Numeral(1), <<"0">>>>),
     Call("ANDOR", <<PK0, OLDER1, <<"0">>>>)}

NestedOperands == {<<"0">>, PK0, OLDER1, Wrap(<<"v">>, PK0), Wrap(<<"a">>, PK0)}

Deeper ==
    {Wrap(<<w>>, x) : w \in WrapperLetters, x \in Nested}
    \cup {Call(tok, <<x, y>>) : tok \in Script2Tokens, x \in Nested, y \in NestedOperands}
    \cup {Call(tok, <<x, y>>) : tok \in Script2Tokens, x \in NestedOperands, y \in Nested}
    \cup {Call(tok, <<x, Wrap(<<w>>, y)>>) :
            tok \in {"AND_B", "OR_B"}, x \in NestedOperands, w \in {"a", "s"}, y \in Nested}
    \cup {Call("THRESH", <<Numeral(1), x, Wrap(<<w>>, y)>>) :
            x \in Nested, w \in {"a", "s"}, y \in Nested}

\* multi and sortedmulti with k and the number of keys around their limits
Multis ==
    {Call(tok, <<Numeral(k)>> \o [i \in 1..n |-> Key((i - 1) % (MaxKeyIndex + 1))]) :
        tok \in {"MULTI", "SORTEDMULTI"}, k \in 0..MaxMultiK, n \in 0..MaxMultiKeys}
    \cup {Call("MULTI", <<num, Key(0), Key(1)>>) : num \in Numerals}
    \cup {Call("MULTI", <<Numeral(1), <<"@">> \o num>>) : num \in Numerals}

\* sh, wsh and the fragments that depend on where they stand
Contexts ==
    LET inner == Atoms \cup Nested
                 \cup {Call("MULTI", <<Numeral(2), Key(0), Key(1), Key(2)>>),
                       Call("SORTEDMULTI", <<Numeral(2), Key(0), Key(1), Key(2)>>)}
        one   == {Call(tok, <<x>>) : tok \in {"SH", "WSH"}, x \in inner}
        two   == {Call(tok, <<x>>) : tok \in {"SH", "WSH"}, x \in one}
    IN  one \cup two
        \cup {Call("SH", <<Call("WSH", <<Call("SH", <<Call("WPKH", <<Key(0)>>)>>)>>)>>)}
        \cup {Call(tok, <<Wrap(<<w>>, x)>>) :
                tok \in {"SH", "WSH"}, w \in {"a", "v"},
                x \in {PK0, Call("WPKH", <<Key(0)>>), Call("TR", <<Key(0)>>),
                       Call("WSH", <<PK0>>)}}
        \cup {Call(tok, <<x, y>>) :
                tok \in Script2Tokens \cup {"THRESH"},
                x \in {PK0, Numeral(1)},
                y \in {Call(t2, <<Key(0)>>) : t2 \in {"TR", "WPKH"}}
                      \cup {Call(t2, <<PK0>>) : t2 \in {"SH", "WSH"}}
                      \cup {Call("SORTEDMULTI", <<Numeral(1), Key(0)>>)}}

\* older and after on the numerals
Timelocks == {Call(tok, <<num>>) : tok \in {"OLDER", "AFTER"}, num \in Numerals}

\* texts that are no policy, or one followed or preceded by something else
Malformed ==
    {<<>>, <<":">>, <<"(">>, PK0 \o <<")">>, PK0 \o PK0, <<"0">> \o <<"0">>,
     <<"1">> \o <<",">>, <<"0">> \o <<"(", ")">>,
     Wrap(<<>>, PK0), Wrap(<<"a","z">>, PK0), Wrap(<<"z">>, PK0), Wrap(<<"a","v">>, PK0),
     Wrap(<<"A">>, PK0), Wrap(<<"a">>, Wrap(<<"v">>, PK0)), <<"a","v">> \o PK0,
     Call("AND_V", <<Wrap(<<>>, Wrap(<<"v">>, PK0)), PK0>>),
     Call("AND_V", <<Wrap(<<"v">>, PK0), Wrap(<<>>, PK0)>>),
     Call("AND_V", <<Wrap(<<"v">>, PK0)>>), Call("AND_V", <<Wrap(<<"v">>, PK0), PK0, PK0>>),
     Call("AND_V", <<Wrap(<<"v">>, PK0), PK0>>) \o <<",">>,
     Call("ANDOR", <<PK0, PK0>>), Call("THRESH", <<Numeral(1)>>),
     Call("THRESH", <<PK0>>), Call("THRESH", <<Numeral(1), PK0>>) \o <<")">>,
     Call("THRESH", <<Numeral(1), PK0, <<>>>>),
     Keyword("PK") \o Key(0), Keyword("PK") \o <<"(">> \o Key(0),
     Call("PK", <<Numeral(0)>>), Call("PK", <<<<"@">>>>), Call("PK", <<Key(0), Key(1)>>),
     Call("MULTI", <<Numeral(1), Numeral(0)>>), Call("MULTI", <<Key(0)>>),
     Keyword("SORTEDMULTI") \o <<"x">> \o <<"(">> \o Numeral(1) \o <<",">> \o Key(0) \o <<")">>,
     <<"P","K">> \o <<"(">> \o Key(0) \o <<")">>,
     Call("SHA256", <<Hex20>>), Call("HASH160", <<Hex32>>),
     Call("HASH160", <<Repeat(<<"A","B">>, 20)>>), Call("HASH160", <<Repeat(<<"0","g">>, 20)>>),
     Call("OLDER", <<Numeral(1), Numeral(2)>>), Call("OLDER", <<<<"-","1">>>>)}

\* a policy followed by one byte more
Trailing ==
    {x \o y : x \in Atoms \cup {Wrap(<<"c">>, PK_K0), Call("WSH", <<PK0>>)},
              y \in {<<")">>, <<",">>, <<":">>, <<" ">>}}

Inputs ==
    Atoms \cup WrappedAtoms \cup Script2s \cup Andors \cup Threshs \cup Deeper
    \cup Multis \cup Contexts \cup Timelocks \cup Malformed \cup Trailing

\* policies parsed into an arena that may be too small, or not aligned
ArenaInputs ==
    Atoms \cup Nested \cup {Call("SH", <<Call("WSH", <<x>>)>>) : x \in Atoms \cup Nested}

\* arenas too small for most of the trees of ArenaInputs
ArenaSizes == {0, SmallArena \div 4, SmallArena \div 2, SmallArena}

---------------------------------------------------------------------------
(* The wallet header (read_policy_map_wallet). A header is a sequence of     *)
(* bytes 0..255; a uint64_t is its eight bytes, least significant first.     *)

WALLET_TYPE_POLICY_MAP == 2

MAX_WALLET_NAME_LENGTH == 64

MAX_POLICY_MAP_STR_LENGTH == 74

\* buffer_read_u8: [ok, pos, v]
buffer_read_u8(buf, pos) ==
    IF buffer_can_read(buf, pos, 1) THEN [ok |-> TRUE, pos |-> pos + 1, v |-> buf[pos + 1]]
    ELSE [ok |-> FALSE, pos |-> pos, v |-> 0]

\* buffer_read_bytes: [ok, pos, v]
buffer_read_bytes(buf, pos, n) ==
    IF buffer_can_read(buf, pos, n)
    THEN [ok |-> TRUE, pos |-> pos + n, v |-> SubSeq(buf, pos + 1, pos + n)]
    ELSE [ok |-> FALSE, pos |-> pos, v |-> <<>>]

\* the uint64_t whose least significant bytes are `bytes`
U64(bytes) == bytes \o [i \in 1..(8 - Len(bytes)) |-> 0]

\* the number of bytes that follow the first byte of a varint
varint_size(first) == IF first < 253 THEN 0 ELSE IF first = 253 THEN 2 ELSE IF first = 254 THEN 4 ELSE 8

\* buffer_read_varint: one byte below 0xFD, or 0xFD, 0xFE, 0xFF and then 2, 4,
\* 8 bytes, least significant first: [ok, pos, v]
buffer_read_varint(buf, pos) ==
    IF ~buffer_can_read(buf, pos, 1) THEN [ok |-> FALSE, pos |-> pos, v |-> U64(<<>>)]
    ELSE IF buf[pos + 1] < 253 THEN [ok |-> TRUE, pos |-> pos + 1, v |-> U64(<<buf[pos + 1]>>)]
    ELSE IF ~buffer_can_read(buf, pos + 1, varint_size(buf[pos + 1]))
    THEN [ok |-> FALSE, pos |-> pos, v |-> U64(<<>>)]
    ELSE [ok |-> TRUE, pos |-> pos + 1 + varint_size(buf[pos + 1]),
          v |-> U64(SubSeq(buf, pos + 2, pos + 1 + varint_size(buf[pos + 1])))]

\* (uint16_t) v
Uint16(v) == v[1] + 256 * v[2]

\* v > 252 for a uint64_t v
U64_Gt252(v) == v[1] > 252 \/ \E i \in 2..8 : v[i] # 0

\* the header object before read_policy_map_wallet wrote to it
EmptyHeader ==
    [type |-> 0, name_len |-> 0, name |-> <<>>, policy_map_len |-> 0, policy_map |-> <<>>,
     n_keys |-> 0, keys_info_merkle_root |-> <<>>]

\* return of read_policy_map_wallet: the value returned, the cursor, the header
Return(ret, pos, header) == [ok |-> ret = 0, ret |-> ret, pos |-> pos, header |-> header]

\* read_policy_map_wallet once the Merkle root was read
read_policy_map_wallet_root(buf, header, r) ==
    IF ~r.ok THEN Return(-10, r.pos, header)
    ELSE Return(0, r.pos, [header EXCEPT !.keys_info_merkle_root = r.v])

\* read_policy_map_wallet once n_keys was read
read_policy_map_wallet_n_keys(buf, header, r) ==
    IF ~r.ok \/ U64_Gt252(r.v) THEN Return(-9, r.pos, header)
    ELSE read_policy_map_wallet_root(buf, [header EXCEPT !.n_keys = Uint16(r.v)],
                                     buffer_read_bytes(buf, r.pos, 32))

\* read_policy_map_wallet once the policy map was read
read_policy_map_wallet_policy_map(buf, header, r) ==
    IF ~r.ok THEN Return(-8, r.pos, header)
    ELSE read_policy_map_wallet_n_keys(buf, [header EXCEPT !.policy_map = r.v],
                                       buffer_read_varint(buf, r.pos))

\* read_policy_map_wallet once policy_map_len is stored
read_policy_map_wallet_len_stored(buf, header, pos) ==
    IF header.policy_map_len > MAX_POLICY_MAP_STR_LENGTH THEN Return(-7, pos, header)
    ELSE read_policy_map_wallet_policy_map(buf, header,
                                           buffer_read_bytes(buf, pos, header.policy_map_len))

\* read_policy_map_wallet once the length of the policy map was read
read_policy_map_wallet_policy_map_len(buf, header, r) ==
    IF ~r.ok THEN Return(-6, r.pos, header)
    ELSE read_policy_map_wallet_len_stored(buf, [header EXCEPT !.policy_map_len = Uint16(r.v)],
                                           r.pos)

\* read_policy_map_wallet once the name was read
read_policy_map_wallet_name(buf, header, r) ==
    IF ~r.ok THEN Return(-5, r.pos, header)
    ELSE read_policy_map_wallet_policy_map_len(buf, [header EXCEPT !.name = r.v],
                                               buffer_read_varint(buf, r.pos))

\* read_policy_map_wallet once name_len was read
read_policy_map_wallet_name_len(buf, header, r) ==
    IF ~r.ok THEN Return(-3, r.pos, header)
    ELSE IF r.v > MAX_WALLET_NAME_LENGTH
    THEN Return(-4, r.pos, [header EXCEPT !.name_len = r.v])
    ELSE read_policy_map_wallet_name(buf, [header EXCEPT !.name_len = r.v],
                                     buffer_read_bytes(buf, r.pos, r.v))

\* read_policy_map_wallet once the type was read
read_policy_map_wallet_type(buf, header, r) ==
    IF ~r.ok THEN Return(-1, r.pos, header)
    ELSE IF r.v # WALLET_TYPE_POLICY_MAP THEN Return(-2, r.pos, [header EXCEPT !.type = r.v])
    ELSE read_policy_map_wallet_name_len(buf, [header EXCEPT !.type = r.v],
                                         buffer_read_u8(buf, r.pos))

\* read_policy_map_wallet: [ok, ret, pos, header]
read_policy_map_wallet(buf) ==
    read_policy_map_wallet_type(buf, EmptyHeader, buffer_read_u8(buf, 0))

\* crypto_hash_update_varint: the bytes hashed for a value below 2^16, one
\* byte below 0xFD, else 0xFD and two bytes, least significant first
crypto_hash_update_varint(v) == IF v < 253 THEN <<v>> ELSE <<253, v % 256, v \div 256>>

\* get_policy_wallet_id: the bytes fed to the hash, in the order they are fed
get_policy_wallet_id(wallet_header) ==
    <<wallet_header.type>> \o <<wallet_header.name_len>>
    \o SubSeq(wallet_header.name, 1, wallet_header.name_len)
    \o crypto_hash_update_varint(wallet_header.policy_map_len)
    \o SubSeq(wallet_header.policy_map, 1, wallet_header.policy_map_len)
    \o crypto_hash_update_varint(wallet_header.n_keys)
    \o SubSeq(wallet_header.keys_info_merkle_root, 1, 32)

---------------------------------------------------------------------------
(* Headers handed to read_policy_map_wallet *)

MaxTrailing == 2

Bytes(b, n) == [i \in 1..n |-> b]

\* name lengths, with the name missing one byte for some
NameFields ==
    {<<n>> \o Bytes(97, n) : n \in {0, 1, 2, 64, 65, 255}} \cup {<<2, 97>>, <<64>>}

\* encodings of the length of the policy map
PolicyLengths ==
    {<<0>>, <<7>>, <<74>>, <<75>>, <<252>>, <<253, 74, 0>>, <<253, 75, 0>>, <<253, 0, 1>>,
     <<253, 255, 255>>, <<254, 10, 0, 1, 0>>, <<254, 74, 0, 255, 255>>, <<254, 75, 0, 0, 0>>,
     <<255, 0, 0, 0, 0, 1, 0, 0, 0>>, <<255, 74, 0, 0, 0, 0, 0, 0, 128>>,
     <<255, 7, 0, 0, 0, 0, 0, 0, 0>>, <<253, 1>>, <<255, 1, 2>>}

\* the low 16 bits of the length that enc encodes
Low16(enc) == IF Len(enc) = 1 THEN enc[1] ELSE enc[2] + 256 * enc[3]

\* a policy map of as many bytes as the low 16 bits of the length say, if that
\* is a length a header may have; one without its bytes, or one byte short
PolicyFields ==
    {enc \o Bytes(112, Low16(enc)) :
        enc \in {e \in PolicyLengths : Len(e) \in {1, 3, 5, 9}
                                        /\ Low16(e) <= MAX_POLICY_MAP_STR_LENGTH}}
    \cup PolicyLengths \cup {<<7>> \o Bytes(112, 6)}

KeysFields ==
    {<<0>>, <<1>>, <<252>>, <<253, 253, 0>>, <<253, 1, 0>>, <<254, 1, 0, 1, 0>>,
     <<255, 1, 0, 0, 0, 0, 0, 0, 1>>, <<253>>, <<>>}

RootFields == {Bytes(0, 32), Bytes(171, 32), Bytes(0, 31)}

TrailingBytes == {Bytes(0, n) : n \in 0..MaxTrailing}

HeaderInputs ==
    {<<WALLET_TYPE_POLICY_MAP>> \o name \o policy \o keys \o root \o extra :
        name \in NameFields, policy \in PolicyFields, keys \in KeysFields,
        root \in RootFields, extra \in TrailingBytes}
    \cup {<<>>, <<2>>, <<0>>, <<1, 1, 97, 0, 0>> \o Bytes(0, 32), <<3, 1, 97, 0, 0>> \o Bytes(0, 32)}

---------------------------------------------------------------------------
(* Key information (parse_policy_map_key_info) *)

MAX_BIP32_PATH_STEPS == 8

\* any length from 112 on gives the same results
MAX_SERIALIZED_PUBKEY_LENGTH == 113

BIP32_FIRST_HARDENED_CHILD == TwoTo31

\* der_step | BIP32_FIRST_HARDENED_CHILD, for der_step < BIP32_FIRST_HARDENED_CHILD
Hardened(der_step) == <<der_step[1] + BIP32_FIRST_HARDENED_CHILD[1], der_step[2]>>

\* buffer_read_derivation_step once the decimal d is parsed: [ok, pos, out]
buffer_read_derivation_step_parsed(buf, d) ==
    IF ~d.ok \/ SizeT_Le(BIP32_FIRST_HARDENED_CHILD, d.out)
    THEN [ok |-> FALSE, pos |-> d.pos, out |-> SizeT(0)]
    ELSE IF consume_character(buf, d.pos, "'") # -1
    THEN [ok |-> TRUE, pos |-> d.pos + 1, out |-> Hardened(d.out)]
    ELSE [ok |-> TRUE, pos |-> d.pos, out |-> d.out]

buffer_read_derivation_step(buf, pos) ==
    buffer_read_derivation_step_parsed(buf, parse_unsigned_decimal(buf, pos))

\* memset(out, 0, sizeof(policy_map_key_info_t)); `stored` is no field of the
\* structure: it records the indices of master_key_derivation written so far
EmptyKeyInfo ==
    [master_key_derivation |-> [i \in 1..MAX_BIP32_PATH_STEPS |-> SizeT(0)],
     master_key_fingerprint |-> <<0, 0, 0, 0>>, master_key_derivation_len |-> 0,
     has_key_origin |-> 0, has_wildcard |-> 0, ext_pubkey |-> <<>>, stored |-> {}]

KeyFail(err, pos, info) == [ok |-> FALSE, err |-> err, pos |-> pos, info |-> info]

KeyDone(pos, info) == [ok |-> TRUE, err |-> "", pos |-> pos, info |-> info]

\* the four bytes of a uint32_t in memory, least significant first
StepBytes(step) == <<step[2] % 256, step[2] \div 256, step[1] % 256, step[1] \div 256>>

\* what follows the array master_key_derivation in memory: the member that the
\* structure declares after it, or nothing that is read again
AfterDerivation ==
    {"nothing", "master_key_fingerprint", "master_key_derivation_len", "has_key_origin",
     "has_wildcard", "ext_pubkey"}

\* a write to master_key_derivation[MAX_BIP32_PATH_STEPS], past the end of the
\* array: it lands on the member `after`
store_past_end(info, step, after) ==
    CASE after = "nothing" -> info
      [] after = "master_key_fingerprint" ->
           [info EXCEPT !.master_key_fingerprint = StepBytes(step)]
      [] after = "master_key_derivation_len" ->
           [info EXCEPT !.master_key_derivation_len = StepBytes(step)[1]]
      [] after = "has_key_origin" -> [info EXCEPT !.has_key_origin = StepBytes(step)[1]]
      [] after = "has_wildcard" -> [info EXCEPT !.has_wildcard = StepBytes(step)[1]]
      [] after = "ext_pubkey" -> [info EXCEPT !.ext_pubkey = StepBytes(step)]

\* out->master_key_derivation[index] = step
store_step(info, index, step, after) ==
    IF index < MAX_BIP32_PATH_STEPS
    THEN [info EXCEPT !.master_key_derivation[index + 1] = step, !.stored = @ \cup {index}]
    ELSE [store_past_end(info, step, after) EXCEPT !.stored = @ \cup {index}]

\* parse_policy_map_key_info from the test of the bytes after the key on
key_info_wildcard(buf, pos, info) ==
    IF ~buffer_can_read(buf, pos, 1) THEN KeyDone(pos, info)
    ELSE IF \/ ~buffer_can_read(buf, pos, 3)
            \/ buffer_can_read(buf, pos + 3, 1)
            \/ SubSeq(buf, pos + 1, pos + 3) # <<"/", "*", "*">>
    THEN KeyFail("", pos, [info EXCEPT !.has_wildcard = 1])
    ELSE KeyDone(pos + 3, [info EXCEPT !.has_wildcard = 1])

RECURSIVE read_ext_pubkey(_, _, _)
\* the loop that copies the key: ext_pubkey_len when it ends
read_ext_pubkey(buf, pos, ext_pubkey_len) ==
    IF /\ ext_pubkey_len < MAX_SERIALIZED_PUBKEY_LENGTH
       /\ buffer_can_read(buf, pos + ext_pubkey_len, 1)
       /\ is_alphanumeric(buffer_peek(buf, pos + ext_pubkey_len))
    THEN read_ext_pubkey(buf, pos, ext_pubkey_len + 1)
    ELSE ext_pubkey_len

\* the test of the length of the key
ext_pubkey_len_ok(ext_pubkey_len) == ~(ext_pubkey_len < 111 \/ ext_pubkey_len > 112)

\* parse_policy_map_key_info once ext_pubkey_len bytes of key are copied
key_info_ext_pubkey(buf, pos, info, ext_pubkey_len) ==
    IF ~ext_pubkey_len_ok(ext_pubkey_len)
    THEN KeyFail("Invalid extended pubkey length", pos + ext_pubkey_len,
                 [info EXCEPT !.ext_pubkey = SubSeq(buf, pos + 1, pos + ext_pubkey_len)])
    ELSE key_info_wildcard(buf, pos + ext_pubkey_len,
                           [info EXCEPT !.ext_pubkey = SubSeq(buf, pos + 1, pos + ext_pubkey_len)])

\* parse_policy_map_key_info once the steps of the origin are read
key_info_close(buf, pos, info) ==
    IF consume_character(buf, pos, "]") = -1 THEN KeyFail("Expected ']'", pos, info)
    ELSE key_info_ext_pubkey(buf, pos + 1, info, read_ext_pubkey(buf, pos + 1, 0))

\* the test made before a step is read
too_many_steps(master_key_derivation_len) == master_key_derivation_len > MAX_BIP32_PATH_STEPS

RECURSIVE key_info_steps(_, _, _, _)
RECURSIVE key_info_step(_, _, _, _)
\* one turn of the loop once the step is read
key_info_step(buf, info, after, step) ==
    IF ~step.ok THEN KeyFail("", step.pos, info)
    ELSE key_info_steps(
             buf, step.pos,
             [store_step(info, info.master_key_derivation_len, step.out, after)
                EXCEPT !.master_key_derivation_len = @ + 1],
             after)

\* while (consume_character(buffer, '/'))
key_info_steps(buf, pos, info, after) ==
    IF consume_character(buf, pos, "/") = -1 THEN key_info_close(buf, pos, info)
    ELSE IF too_many_steps(info.master_key_derivation_len)
    THEN KeyFail("Too many derivation steps", pos + 1, info)
    ELSE key_info_step(buf, info, after, buffer_read_derivation_step(buf, pos + 1))

RECURSIVE read_fingerprint(_, _, _)
\* the loop over the four bytes of the fingerprint: the bytes read, and -1
\* after them if a character is no lowercase hexadecimal digit
read_fingerprint(buf, pos, i) ==
    IF i >= 4 THEN <<>>
    ELSE IF ~is_lowercase_hex(buf[pos + 1]) \/ ~is_lowercase_hex(buf[pos + 2]) THEN <<-1>>
    ELSE <<16 * lowercase_hex_to_int(buf[pos + 1]) + lowercase_hex_to_int(buf[pos + 2])>>
         \o read_fingerprint(buf, pos + 2, i + 1)

\* parse_policy_map_key_info once the fingerprint loop ended with fp
key_info_fingerprint(buf, pos, info, after, fp) ==
    IF fp[Len(fp)] = -1
    THEN KeyFail("", pos + 2 * Len(fp),
                 [info EXCEPT !.master_key_fingerprint =
                     [i \in 1..4 |-> IF i < Len(fp) THEN fp[i] ELSE 0]])
    ELSE key_info_steps(buf, pos + 8, [info EXCEPT !.master_key_fingerprint = fp], after)

\* parse_policy_map_key_info after the "[" of a key origin
key_info_origin(buf, pos, info, after) ==
    IF ~buffer_can_read(buf, pos, 9) THEN KeyFail("", pos, info)
    ELSE key_info_fingerprint(buf, pos, info, after, read_fingerprint(buf, pos, 0))

\* parse_policy_map_key_info: [ok, err, pos, info]
parse_policy_map_key_info(buf, after) ==
    IF consume_character(buf, 0, "[") # -1
    THEN key_info_origin(buf, 1, [EmptyKeyInfo EXCEPT !.has_key_origin = 1], after)
    ELSE key_info_ext_pubkey(buf, 0, EmptyKeyInfo, read_ext_pubkey(buf, 0, 0))

---------------------------------------------------------------------------
(* Key information handed to parse_policy_map_key_info *)

MaxSteps == 10

\* an alphanumeric run of n characters
XPub(n) == [i \in 1..n |-> IF i = 1 THEN "x" ELSE IF i % 2 = 0 THEN "6" ELSE "C"]

Step(text) == <<"/">> \o text

Origin(fp, steps) == <<"[">> \o fp \o steps \o <<"]">>

DEADBEEF == <<"d", "e", "a", "d", "b", "e", "e", "f">>

ZEROS == Repeat(<<"0">>, 8)

Origins ==
    {<<>>}
    \cup {Origin(ZEROS, Repeat(Step(s), n)) :
            s \in {<<"0">>, <<"1">>, <<"4", "4", "'">>}, n \in 0..MaxSteps}
    \cup {Origin(DEADBEEF, Step(<<"8", "4", "'">>) \o Step(s)) :
            s \in {num \o h : num \in Numerals, h \in {<<>>, <<"'">>, <<"h">>}}}
    \cup {Origin(fp, Step(<<"0">>)) :
            fp \in {<<>>, Repeat(<<"0">>, 7), Repeat(<<"A">>, 8), Repeat(<<"0", "g">>, 4),
                    Repeat(<<"0">>, 9)}}
    \cup {<<"[">> \o DEADBEEF, <<"[">> \o DEADBEEF \o Step(<<"0">>), <<"[">>,
          <<"[">> \o DEADBEEF \o Step(<<"0">>) \o <<"/", "]">>}

KeySuffixes ==
    {<<>>, <<"/", "*", "*">>, <<"/", "*">>, <<"/">>, <<"/", "*", "*", "*">>,
     <<"/", "*", "*", "/">>, <<"/", "*", "*", "x">>, <<"*", "*", "/">>, <<"/", "*", "x">>,
     <<"-">>, <<"-", "*", "*">>, <<"/", "0", "/", "*">>}

KeyInfoInputs ==
    {origin \o XPub(n) \o suffix :
        origin \in Origins, n \in {0, 110, 111, 112, 113, 114}, suffix \in KeySuffixes}

\* digit runs, alone or followed by something that is no digit
DecimalInputs ==
    {num \o tail : num \in Numerals \cup {<<a, b>> : a, b \in Digits},
                   tail \in {<<>>, <<",">>, <<"'">>, <<"a", "1">>}}

---------------------------------------------------------------------------
(* The state machine: a caller hands an input to one of the operations *)

NoResult == Fail("", 0, buffer_create(0))

Init ==
    /\ res = NoResult
    /\ \/ /\ pc = "start"
          /\ \/ in_buf \in Inputs /\ out_addr = 0 /\ out_len = BigArena
             \/ in_buf \in ArenaInputs /\ out_addr = 0 /\ out_len \in ArenaSizes
             \/ in_buf \in Atoms /\ out_addr \in 1..3 /\ out_len = BigArena
       \/ /\ pc = "decimal"
          /\ in_buf \in DecimalInputs /\ out_addr = 0 /\ out_len = 0
       \/ /\ pc = "header"
          /\ in_buf \in HeaderInputs /\ out_addr = 0 /\ out_len = 0
       \/ /\ pc = "key_info"
          /\ in_buf \in KeyInfoInputs /\ out_addr = 0 /\ out_len = 0

\* int parse_policy_map(buffer_t *in_buf, void *out, size_t out_len)
ParsePolicyMap ==
    /\ pc = "start"
    /\ res' = parse_policy_map(in_buf, out_addr, out_len)
    /\ pc' = "done"
    /\ UNCHANGED <<in_buf, out_addr, out_len>>

\* static int parse_unsigned_decimal(buffer_t *buffer, size_t *out)
ParseUnsignedDecimal ==
    /\ pc = "decimal"
    /\ res' = parse_unsigned_decimal(in_buf, 0)
    /\ pc' = "decimal_done"
    /\ UNCHANGED <<in_buf, out_addr, out_len>>

\* int read_policy_map_wallet(buffer_t *buffer, policy_map_wallet_header_t *header)
ReadPolicyMapWallet ==
    /\ pc = "header"
    /\ res' = read_policy_map_wallet(in_buf)
    /\ pc' = "header_done"
    /\ UNCHANGED <<in_buf, out_addr, out_len>>

\* int parse_policy_map_key_info(buffer_t *buffer, policy_map_key_info_t *out)
ParsePolicyMapKeyInfo ==
    /\ pc = "key_info"
    /\ \E after \in AfterDerivation : res' = parse_policy_map_key_info(in_buf, after)
    /\ pc' = "key_info_done"
    /\ UNCHANGED <<in_buf, out_addr, out_len>>

\* void get_policy_wallet_id(policy_map_wallet_header_t *wallet_header, uint8_t out[static 32])
\* on a header that read_policy_map_wallet decoded
GetPolicyWalletId ==
    /\ pc = "header_done"
    /\ res.ok
    /\ res' = [ok |-> TRUE, pos |-> res.pos, header |-> res.header,
               hashed |-> get_policy_wallet_id(res.header)]
    /\ pc' = "wallet_id_done"
    /\ UNCHANGED <<in_buf, out_addr, out_len>>

Next ==
    \/ ParsePolicyMap
    \/ ParseUnsignedDecimal
    \/ ReadPolicyMapWallet
    \/ ParsePolicyMapKeyInfo
    \/ GetPolicyWalletId

Spec == Init /\ [][Next]_vars

---------------------------------------------------------------------------
(* The tree a finished parse left in the arena *)

\* the parse is over and parse_policy_map returned success
Accepted == pc = "done" /\ res.ok

\* the parse is over and parse_policy_map returned an error
Rejected == pc = "done" /\ ~res.ok

Cell(i) == res.out.cells[i]

\* the policy nodes of the arena, and those of given types
Nodes == {i \in DOMAIN res.out.cells : Cell(i).kind = "node"}

NodesOf(types) == {i \in Nodes : Cell(i).type \in types}

Root == res.node

\* the flags of the j-th child script of node i
ChildOf(i, j) == Cell(Cell(i).scripts[j]).flags

IsType(X, t) == X.is_miniscript = 1 /\ X.miniscript_type = t

ModZ(X) == X.miniscript_mod_z = 1
ModO(X) == X.miniscript_mod_o = 1
ModN(X) == X.miniscript_mod_n = 1
ModD(X) == X.miniscript_mod_d = 1
ModU(X) == X.miniscript_mod_u = 1

Bit(b) == IF b THEN 1 ELSE 0

\* a flag vector as the tables of the type calculator write it
Flags(t, bz, bo, bn, bd, bu) ==
    [is_miniscript |-> 1, miniscript_type |-> t, miniscript_mod_z |-> Bit(bz),
     miniscript_mod_o |-> Bit(bo), miniscript_mod_n |-> Bit(bn), miniscript_mod_d |-> Bit(bd),
     miniscript_mod_u |-> Bit(bu)]

Rule(pre, flags) == [pre |-> pre, flags |-> flags]

SameTypeBKV(X, Y) == \E t \in {"B", "K", "V"} : IsType(X, t) /\ IsType(Y, t)

---------------------------------------------------------------------------
(* Composition rules *)

Combinators == {"ANDOR", "AND_V", "AND_B", "AND_N", "OR_B", "OR_C", "OR_D", "OR_I"}

\* the composition rule of andor(X,Y,Z)
AndorRule(X, Y, Z) ==
    Rule(IsType(X, "B") /\ ModD(X) /\ ModU(X) /\ SameTypeBKV(Y, Z),
         Flags(Y.miniscript_type,
               ModZ(X) /\ ModZ(Y) /\ ModZ(Z),
               (ModZ(X) /\ ModO(Y) /\ ModO(Z)) \/ (ModO(X) /\ ModZ(Y) /\ ModZ(Z)),
               FALSE, ModD(Z), ModU(Y) /\ ModU(Z)))

\* the composition rules of the fragments with two children
BinaryRule(type, X, Y) ==
    CASE type = "AND_V" ->
           Rule(IsType(X, "V") /\ (\E t \in {"B", "K", "V"} : IsType(Y, t)),
                Flags(Y.miniscript_type, ModZ(X) /\ ModZ(Y),
                      (ModZ(X) /\ ModO(Y)) \/ (ModO(X) /\ ModZ(Y)),
                      ModN(X) \/ (ModZ(X) /\ ModN(Y)), FALSE, ModU(Y)))
      [] type = "AND_B" ->
           Rule(IsType(X, "B") /\ IsType(Y, "W"),
                Flags("B", ModZ(X) /\ ModZ(Y),
                      (ModZ(X) /\ ModO(Y)) \/ (ModO(X) /\ ModZ(Y)),
                      ModN(X) \/ (ModZ(X) /\ ModN(Y)), ModD(X) /\ ModD(Y), ModU(Y)))
      [] type = "AND_N" ->
           Rule(IsType(X, "B") /\ ModD(X) /\ ModU(X) /\ IsType(Y, "B"),
                Flags("B", ModZ(X) /\ ModZ(Y), ModO(X) /\ ModZ(Y), FALSE, TRUE, ModU(Y)))
      [] type = "OR_B" ->
           Rule(IsType(X, "B") /\ ModD(X) /\ IsType(Y, "W") /\ ModD(Y),
                Flags("B", ModZ(X) /\ ModZ(Y),
                      (ModZ(X) /\ ModO(Y)) \/ (ModO(X) /\ ModZ(Y)), FALSE, TRUE, TRUE))
      [] type = "OR_C" ->
           Rule(IsType(X, "B") /\ ModD(X) /\ ModU(X) /\ IsType(Y, "V"),
                Flags("V", ModZ(X) /\ ModZ(Y), ModO(X) /\ ModO(Y), FALSE, FALSE, FALSE))
      [] type = "OR_D" ->
           Rule(IsType(X, "B") /\ ModD(X) /\ ModU(X) /\ IsType(Y, "B"),
                Flags("B", ModZ(X) /\ ModZ(Y), ModO(X) /\ ModO(Y), FALSE, ModD(Y), ModU(Y)))
      [] type = "OR_I" ->
           Rule(SameTypeBKV(X, Y),
                Flags(X.miniscript_type, FALSE, ModZ(X) /\ ModZ(Y), FALSE,
                      ModD(X) \/ ModD(Y), ModU(X) /\ ModU(Y)))

\* the rule that applies to the combinator node i
RuleOfNode(i) ==
    IF Cell(i).type = "ANDOR"
    THEN AndorRule(ChildOf(i, 1), ChildOf(i, 2), ChildOf(i, 3))
    ELSE BinaryRule(Cell(i).type, ChildOf(i, 1), ChildOf(i, 2))

---------------------------------------------------------------------------
(* Wrapper rules *)

Wrappers == {"A", "S", "C", "T", "D", "V", "J", "N", "L", "U"}

\* the row of the wrapper table for `type` applied to child X
WrapperRule(type, X) ==
    CASE type = "A" -> Rule(IsType(X, "B"), Flags("W", FALSE, FALSE, FALSE, ModD(X), ModU(X)))
      [] type = "S" -> Rule(IsType(X, "B") /\ ModO(X),
                            Flags("W", FALSE, FALSE, FALSE, ModD(X), ModU(X)))
      [] type = "C" -> Rule(IsType(X, "K"), Flags("B", FALSE, ModO(X), ModN(X), ModD(X), TRUE))
      [] type = "T" -> Rule(IsType(X, "V"), Flags("B", ModZ(X), ModO(X), ModN(X), FALSE, TRUE))
      [] type = "D" -> Rule(IsType(X, "V") /\ ModZ(X),
                            Flags("B", FALSE, TRUE, TRUE, TRUE, FALSE))
      [] type = "V" -> Rule(IsType(X, "B"), Flags("V", ModZ(X), ModO(X), ModN(X), FALSE, FALSE))
      [] type = "J" -> Rule(IsType(X, "B") /\ ModN(X),
                            Flags("B", FALSE, ModO(X), TRUE, TRUE, ModU(X)))
      [] type = "N" -> Rule(IsType(X, "B"), Flags("B", ModZ(X), ModO(X), ModN(X), ModD(X), TRUE))
      [] type = "L" -> Rule(IsType(X, "B"), Flags("B", FALSE, ModZ(X), FALSE, TRUE, ModU(X)))
      [] type = "U" -> Rule(IsType(X, "B"), Flags("B", FALSE, ModZ(X), FALSE, TRUE, ModU(X)))

---------------------------------------------------------------------------
(* Leaf flags *)

NotMiniscriptLeaves == {"SORTEDMULTI", "WPKH", "TR", "SH", "WSH"}

MiniscriptLeaves ==
    {"0", "1", "PK", "PKH", "PK_K", "PK_H", "OLDER", "AFTER", "SHA256", "HASH256",
     "RIPEMD160", "HASH160", "MULTI"}

\* the row of the leaf table for a miniscript leaf
LeafRow(type) ==
    CASE type = "0" -> Flags("B", TRUE, FALSE, FALSE, TRUE, TRUE)
      [] type = "1" -> Flags("B", TRUE, FALSE, FALSE, FALSE, TRUE)
      [] type = "PK" -> Flags("B", FALSE, TRUE, TRUE, TRUE, TRUE)
      [] type = "PKH" -> Flags("B", FALSE, FALSE, TRUE, TRUE, TRUE)
      [] type = "PK_K" -> Flags("K", FALSE, TRUE, TRUE, TRUE, TRUE)
      [] type = "PK_H" -> Flags("K", FALSE, FALSE, TRUE, TRUE, TRUE)
      [] type \in {"OLDER", "AFTER"} -> Flags("B", TRUE, FALSE, FALSE, FALSE, FALSE)
      [] type \in {"SHA256", "HASH256", "RIPEMD160", "HASH160"} ->
           Flags("B", TRUE, TRUE, FALSE, TRUE, TRUE)
      [] type = "MULTI" -> Flags("B", FALSE, FALSE, TRUE, TRUE, TRUE)

\* C3: in an accepted tree every leaf carries the fixed flag vector of the
\* leaf table, and every sortedmulti, wpkh, tr, sh and wsh node is flagged
\* not miniscript
C3_LeafFlags ==
    Accepted =>
        /\ \A i \in NodesOf(MiniscriptLeaves) : Cell(i).flags = LeafRow(Cell(i).type)
        /\ \A i \in NodesOf(NotMiniscriptLeaves) : Cell(i).flags.is_miniscript = 0

\* an accepted sh(wsh(...)) around a miniscript leaf
C3_Witness ==
    /\ Accepted
    /\ Cell(Root).type = "SH"
    /\ NodesOf({"WSH"}) # {}
    /\ NodesOf(MiniscriptLeaves) # {}

---------------------------------------------------------------------------
(* thresh *)

RECURSIVE ScriptList(_)
\* the scripts of the list that starts at cell c
ScriptList(c) == IF c = NULL THEN <<>> ELSE <<Cell(c).script>> \o ScriptList(Cell(c).next)

\* the children of the thresh node i, and their flags
ThreshChildren(i) == ScriptList(Cell(i).ptr)

ThreshChild(i, j) == Cell(ThreshChildren(i)[j]).flags

CountZ(i) == Cardinality({j \in 1..Len(ThreshChildren(i)) : ModZ(ThreshChild(i, j))})

CountO(i) == Cardinality({j \in 1..Len(ThreshChildren(i)) : ModO(ThreshChild(i, j))})

\* C4: in an accepted tree every thresh node has a first child of type B and
\* later children of type W, every child has d and u, n is the number of
\* children, and the node is B with z = (children with z = n),
\* o = (children with z = n - 1 and exactly one child with o), n = d = u = 0
C4_Thresh ==
    Accepted =>
        \A i \in NodesOf({"THRESH"}) :
            /\ Cell(i).n = Len(ThreshChildren(i))
            /\ Cell(i).n >= 1
            /\ \A j \in 1..Cell(i).n :
                 /\ IsType(ThreshChild(i, j), IF j = 1 THEN "B" ELSE "W")
                 /\ ModD(ThreshChild(i, j))
                 /\ ModU(ThreshChild(i, j))
            /\ Cell(i).flags = Flags("B", CountZ(i) = Cell(i).n,
                                     CountZ(i) = Cell(i).n - 1 /\ CountO(i) = 1,
                                     FALSE, FALSE, FALSE)

\* an accepted thresh of three children, one of them with z
C4_Witness ==
    /\ Accepted
    /\ \E i \in NodesOf({"THRESH"}) : Cell(i).n = 3 /\ CountZ(i) = 1 /\ CountO(i) = 0

---------------------------------------------------------------------------
(* Numbers as the policy text writes them *)

\* v \div 10 and v % 10 of a 32-bit value held in limbs
Div10(v) == <<v[1] \div 10, ((v[1] % 10) * LimbBase + v[2]) \div 10>>

Mod10(v) == ((v[1] % 10) * LimbBase + v[2]) % 10

RECURSIVE Decimal(_)
\* the decimal numeral that denotes the 32-bit value v
Decimal(v) ==
    IF v[1] = 0 /\ v[2] < 10 THEN Numeral(v[2])
    ELSE Decimal(Div10(v)) \o Numeral(Mod10(v))

RECURSIVE DigitsLe(_, _)
\* a <= b for numerals of the same length
DigitsLe(a, b) ==
    IF a = <<>> THEN TRUE
    ELSE IF DigitValue(Head(a)) # DigitValue(Head(b))
    THEN DigitValue(Head(a)) < DigitValue(Head(b))
    ELSE DigitsLe(Tail(a), Tail(b))

\* the numeral s, without a leading zero, denotes a value of at most that of max
AtMost(s, max) == Len(s) < Len(max) \/ (Len(s) = Len(max) /\ DigitsLe(s, max))

WordMax == <<"4","2","9","4","9","6","7","2","9","5">>

TimelockMax == <<"2","1","4","7","4","8","3","6","4","7">>

RECURSIVE DigitRun(_, _)
\* the digits of text from position p on
DigitRun(text, p) ==
    IF p <= Len(text) /\ text[p] \in Digits THEN <<text[p]>> \o DigitRun(text, p + 1)
    ELSE <<>>

RECURSIVE WrittenIndices(_, _)
\* the numerals written after each "@" of text, in the order of the text
WrittenIndices(text, p) ==
    IF p > Len(text) THEN <<>>
    ELSE IF text[p] = "@" THEN <<DigitRun(text, p + 1)>> \o WrittenIndices(text, p + 1)
    ELSE WrittenIndices(text, p + 1)

RECURSIVE StoredIndices(_)
\* the key indices of the arena from cell c on, in the order of the cells
StoredIndices(c) ==
    IF c > Len(res.out.cells) THEN <<>>
    ELSE IF Cell(c).kind = "size_t" THEN <<Cell(c).val>> \o StoredIndices(c + 1)
    ELSE IF Cell(c).kind = "node" /\ Cell(c).type \in {"PK", "PKH", "PK_K", "PK_H", "WPKH", "TR"}
    THEN <<Cell(c).key_index>> \o StoredIndices(c + 1)
    ELSE StoredIndices(c + 1)

---------------------------------------------------------------------------
(* thresh, multi and sortedmulti: k and n *)

\* C5: in an accepted tree every thresh node has 1 <= k <= n, n the number of
\* its children; thresh(2,pk(@0)) is rejected
C5_ThreshKWithinN ==
    Accepted =>
        \A i \in NodesOf({"THRESH"}) :
            Cell(i).k[1] = 0 /\ 1 <= Cell(i).k[2] /\ Cell(i).k[2] <= Cell(i).n

\* the cells of the array key_indexes of the multi or sortedmulti node i
KeyIndexCells(i) == {c \in DOMAIN res.out.cells : c >= Cell(i).ptr /\ c < Cell(i).ptr + Cell(i).n}

\* k, n and the array key_indexes of every multi and sortedmulti node
MultiNodesWellFormed ==
    \A i \in NodesOf({"MULTI", "SORTEDMULTI"}) :
        /\ Cell(i).k[1] = 0 /\ 1 <= Cell(i).k[2] /\ Cell(i).k[2] <= Cell(i).n
        /\ Cell(i).n <= 16
        /\ Cell(i).ptr = i + 1
        /\ Cardinality(KeyIndexCells(i)) = Cell(i).n
        /\ \A c \in KeyIndexCells(i) : Cell(c).kind = "size_t"
        /\ (i + Cell(i).n + 1 \in DOMAIN res.out.cells
              => Cell(i + Cell(i).n + 1).kind # "size_t")

\* C6: in an accepted tree every multi and sortedmulti node has
\* 1 <= k <= n <= 16, its array key_indexes is n key indices, and the key
\* indices of the tree are exactly those the text writes, as many and in the
\* order of the text
C6_MultiKeyIndexes ==
    Accepted =>
        /\ MultiNodesWellFormed
        /\ Len(StoredIndices(1)) = Len(WrittenIndices(in_buf, 1))
        /\ \A j \in 1..Len(StoredIndices(1)) :
             Decimal(StoredIndices(1)[j]) = WrittenIndices(in_buf, 1)[j]

\* what holds of C6: the same, with the key indices compared only where the
\* numeral written denotes a value that a 32-bit word holds
MultiKeyIndexesWithinWord ==
    Accepted =>
        /\ MultiNodesWellFormed
        /\ Len(StoredIndices(1)) = Len(WrittenIndices(in_buf, 1))
        /\ \A j \in 1..Len(StoredIndices(1)) :
             AtMost(WrittenIndices(in_buf, 1)[j], WordMax)
                => Decimal(StoredIndices(1)[j]) = WrittenIndices(in_buf, 1)[j]

---------------------------------------------------------------------------
(* Where sortedmulti, tr, sh, wsh and wpkh may stand *)

SH_WSH_SORTEDMULTI ==
    Call("SH", <<Call("WSH", <<Call("SORTEDMULTI", <<Numeral(1), Key(0)>>)>>)>>)

ContextError == "sortedmulti can only be directly under sh or wsh"

\* C7 as claimed: parsing sh(wsh(sortedmulti(1,@0))) fails with a context error
C7_Original ==
    (pc = "done" /\ in_buf = SH_WSH_SORTEDMULTI) => (~res.ok /\ res.err = ContextError)

\* C7: parsing sh(wsh(sortedmulti(1,@0))) fails only for an arena that is
\* misaligned or too small; otherwise it is accepted as sh over wsh over a
\* sortedmulti with k = 1 and the one key index 0, all three not miniscript;
\* and no parse at all fails with the context error of sortedmulti
C7_ShWshSortedmultiAccepted ==
    /\ pc = "done" => ~(~res.ok /\ res.err = ContextError)
    /\ (pc = "done" /\ in_buf = SH_WSH_SORTEDMULTI) =>
         /\ ~res.ok => res.err \in {"Out of memory", "Unaligned pointer"}
         /\ (out_addr = 0 /\ out_len = BigArena) => res.ok
         /\ res.ok =>
              /\ Cell(Root).type = "SH"
              /\ Cell(Cell(Root).scripts[1]).type = "WSH"
              /\ Cell(Cell(Cell(Root).scripts[1]).scripts[1]).type = "SORTEDMULTI"
              /\ Cell(Cell(Cell(Root).scripts[1]).scripts[1]).k = SizeT(1)
              /\ Cell(Cell(Cell(Root).scripts[1]).scripts[1]).n = 1
              /\ StoredIndices(1) = <<SizeT(0)>>
              /\ \A i \in Nodes : Cell(i).flags.is_miniscript = 0

\* sh(wsh(sortedmulti(1,@0))) was parsed and accepted
C7_Witness == Accepted /\ in_buf = SH_WSH_SORTEDMULTI

\* C8: in an accepted tree a tr node is the top-level expression only, and is
\* flagged not miniscript; sh(tr(@0)) and wsh(tr(@0)) are rejected
C8_TrTopLevelOnly ==
    Accepted =>
        \A i \in NodesOf({"TR"}) : i = Root /\ i = 1 /\ Cell(i).flags.is_miniscript = 0

\* C9: in an accepted tree an sh node is the root only, and a wsh or wpkh
\* node is the root or the direct child of a root sh; so sh below the root,
\* and wsh or wpkh under wsh or under a miniscript fragment, are not accepted
C9_ShWshWpkhPlaces ==
    Accepted =>
        /\ \A i \in NodesOf({"SH"}) : i = Root /\ i = 1
        /\ \A i \in NodesOf({"WSH", "WPKH"}) :
             \/ i = Root /\ i = 1
             \/ Root = 1 /\ Cell(Root).type = "SH" /\ Cell(Root).scripts = <<i>>

\* an accepted sh(wpkh(...)), and so a wpkh below the root
C9_Witness ==
    /\ Accepted
    /\ Cell(Root).type = "SH"
    /\ Cell(Cell(Root).scripts[1]).type = "WPKH"

---------------------------------------------------------------------------
(* older and after *)

\* the numeral between the parentheses of a body older(...) or after(...)
WrittenNumber == SubSeq(in_buf, 7, Len(in_buf) - 1)

\* C10: older(n) and after(n) are accepted only when the numeral written
\* denotes a value n with 1 <= n < 2^31, and the node then stores that value
C10_TimelockRange ==
    (Accepted /\ in_buf \in Timelocks) =>
        /\ Cell(Root).type \in {"OLDER", "AFTER"}
        /\ WrittenNumber # <<"0">>
        /\ AtMost(WrittenNumber, TimelockMax)
        /\ Decimal(Cell(Root).num) = WrittenNumber

---------------------------------------------------------------------------
(* The end of the policy *)

\* C13: when parse_policy_map succeeds the cursor is at the end of the policy,
\* and a policy followed by one byte or more is refused for that byte
C13_CursorAtEnd ==
    /\ Accepted => res.pos = Len(in_buf)
    /\ (pc = "done" /\ in_buf \in Trailing)
          => (~res.ok /\ res.err = "Input buffer too long")

\* a closed production and a top-level constant, each followed by a byte, refused
C13_Witness ==
    /\ Rejected /\ res.err = "Input buffer too long"
    /\ in_buf \in {PK0 \o <<")">>, <<"1">> \o <<",">>}

---------------------------------------------------------------------------
(* Wrapper runs *)

\* the letter each wrapper type is written with
WrapperLetter ==
    [A |-> "a", S |-> "s", C |-> "c", T |-> "t", D |-> "d", V |-> "v", J |-> "j",
     N |-> "n", L |-> "l", U |-> "u"]

\* a script starts at position p of text
ScriptStart(text, p) == p = 1 \/ (p <= Len(text) + 1 /\ text[p - 1] \in {"(", ","})

RECURSIVE AlphaEnd(_, _)
\* the first position from p on that holds no lowercase letter
AlphaEnd(text, p) ==
    IF p <= Len(text) /\ text[p] \in LowerAlpha THEN AlphaEnd(text, p + 1) ELSE p

\* the letters w1...wk of the script w1...wk:body that starts at p, or none
WrapperRunAt(text, p) ==
    IF ScriptStart(text, p) /\ AlphaEnd(text, p) <= Len(text) /\ text[AlphaEnd(text, p)] = ":"
    THEN SubSeq(text, p, AlphaEnd(text, p) - 1)
    ELSE <<>>

RECURSIVE WrittenWrappers(_, _)
\* the letters of all wrapper runs of text from position p on, in text order
WrittenWrappers(text, p) ==
    IF p > Len(text) THEN <<>>
    ELSE WrapperRunAt(text, p) \o WrittenWrappers(text, p + 1)

RECURSIVE StoredWrappers(_)
\* the letters of the wrapper nodes of the arena from cell i on, in arena order
StoredWrappers(i) ==
    IF i > Len(res.out.cells) THEN <<>>
    ELSE IF i \in NodesOf(Wrappers)
    THEN <<WrapperLetter[Cell(i).type]>> \o StoredWrappers(i + 1)
    ELSE StoredWrappers(i + 1)

\* the keyword of node i is written at position p of the policy
KeywordAt(i, p) ==
    SubSeq(in_buf, p, p + Len(Keyword(Cell(i).type)) - 1) = Keyword(Cell(i).type)

\* C14: the node returned for an accepted w1...wk:body is the wrapper w1, the
\* child of wi is w(i+1), the child of wk is the node of body, and each
\* wrapper's flags are those its row derives from the final flags of its child;
\* the same order holds for the wrapper runs of the scripts nested in it
C14_WrapperChain ==
    Accepted =>
        /\ StoredWrappers(1) = WrittenWrappers(in_buf, 1)
        /\ \A i \in NodesOf(Wrappers) :
              /\ Cell(i).scripts = <<i + 1>>
              /\ Cell(i).flags = WrapperRule(Cell(i).type, ChildOf(i, 1)).flags
        /\ WrapperRunAt(in_buf, 1) # <<>> =>
              /\ Root = 1
              /\ \A i \in 1..Len(WrapperRunAt(in_buf, 1)) :
                    /\ i \in NodesOf(Wrappers)
                    /\ WrapperLetter[Cell(i).type] = in_buf[i]
              /\ Len(WrapperRunAt(in_buf, 1)) + 1 \in Nodes \ NodesOf(Wrappers)
              /\ KeywordAt(Len(WrapperRunAt(in_buf, 1)) + 1, Len(WrapperRunAt(in_buf, 1)) + 2)

\* an accepted policy with two wrappers at the top
C14_Witness == Accepted /\ Len(WrapperRunAt(in_buf, 1)) = 2

---------------------------------------------------------------------------
(* What counts as a wrapper run *)

WrapperAlphabet == {"a", "c", "d", "j", "l", "n", "s", "t", "u", "v"}

RECURSIVE AlnumEnd(_, _)
\* the first position from p on that holds no letter and no digit
AlnumEnd(text, p) ==
    IF p <= Len(text) /\ is_alphanumeric(text[p]) THEN AlnumEnd(text, p + 1) ELSE p

\* the policy starts with letters and digits followed by ":", and one of them
\* at least is no wrapper letter
ForeignPrefix ==
    /\ AlnumEnd(in_buf, 1) > 1
    /\ AlnumEnd(in_buf, 1) <= Len(in_buf)
    /\ in_buf[AlnumEnd(in_buf, 1)] = ":"
    /\ \E j \in 1..(AlnumEnd(in_buf, 1) - 1) : in_buf[j] \notin WrapperAlphabet

\* the policy starts with wrapper letters that no ":" follows
RunWithoutColon ==
    /\ in_buf # <<>>
    /\ in_buf[1] \in WrapperAlphabet
    /\ WrapperRunAt(in_buf, 1) = <<>>

\* the arena holds wrapper a, then wrapper v under it, then the node of the body
ChainAV ==
    /\ {1, 2, 3} \subseteq Nodes
    /\ Cell(1).type = "A" /\ Cell(1).scripts = <<2>>
    /\ Cell(2).type = "V" /\ Cell(2).scripts = <<3>>
    /\ Cell(3).type \notin Wrappers /\ KeywordAt(3, 4)

\* the parts of C15 on a foreign letter before ":" and on a run without ":"
C15_Rest ==
    /\ (pc = "done" /\ ForeignPrefix) => ~res.ok
    /\ (Accepted /\ RunWithoutColon) =>
          (Root = 1 /\ Cell(1).type \notin Wrappers /\ KeywordAt(1, 1))

\* C15 (as stated): av: followed by a body yields wrapper a, then wrapper v,
\* then the body; a prefix with another letter or digit before the ":" fails;
\* a run of wrapper letters that no ":" follows is the start of a keyword
C15_Original ==
    /\ (pc = "done" /\ out_len = BigArena /\ WrapperRunAt(in_buf, 1) = <<"a", "v">>)
          => (res.ok /\ Root = 1 /\ ChainAV)
    /\ C15_Rest

\* C15 (amended): av: followed by a body is read as wrapper a, then wrapper v,
\* then the body, and then refused, since v makes a V and a needs a B; a
\* well-typed run such as vc: before pk_k(@0) is accepted as wrapper v, then
\* wrapper c, then the body; a prefix with another letter or digit before the
\* ":" fails; a run of wrapper letters that no ":" follows consumes nothing and
\* is the start of a keyword
C15_WrapperRuns ==
    /\ (pc = "done" /\ out_len = BigArena /\ WrapperRunAt(in_buf, 1) = <<"a", "v">>)
          => /\ ~res.ok
             /\ res.err = "wrapper requires another type of child"
             /\ ChainAV
    /\ (pc = "done" /\ out_len = BigArena /\ in_buf = Wrap(<<"v", "c">>, PK_K0))
          => /\ res.ok /\ Root = 1
             /\ Cell(1).type = "V" /\ Cell(1).scripts = <<2>>
             /\ Cell(2).type = "C" /\ Cell(2).scripts = <<3>>
             /\ Cell(3).type = "PK_K"
    /\ C15_Rest

\* av:pk(@0) was read as a, v and pk, and refused
C15_Witness ==
    /\ Rejected /\ in_buf = Wrap(<<"a", "v">>, PK0) /\ ChainAV

---------------------------------------------------------------------------
(* The wallet header *)

\* read_policy_map_wallet returned 0
HeaderAccepted == pc = "header_done" /\ res.ok

\* the length of the name that the header declares
WrittenNameLen == in_buf[2]

\* the bytes, least significant first, of the uint64 whose encoding starts at
\* position p of the header, without the zero bytes at its high end
RECURSIVE Canonical(_)
Canonical(bytes) ==
    IF bytes # <<>> /\ bytes[Len(bytes)] = 0 THEN Canonical(SubSeq(bytes, 1, Len(bytes) - 1))
    ELSE bytes

EncodedAt(p) ==
    Canonical(CASE in_buf[p] < 253 -> <<in_buf[p]>>
                [] in_buf[p] = 253 -> SubSeq(in_buf, p + 1, p + 2)
                [] in_buf[p] = 254 -> SubSeq(in_buf, p + 1, p + 4)
                [] in_buf[p] = 255 -> SubSeq(in_buf, p + 1, p + 8))

\* the length of the policy map, as the header encodes it
WrittenPolicyLen == EncodedAt(3 + WrittenNameLen)

\* C16 (as stated): read_policy_map_wallet succeeds only for a name length
\* from 1 to 64; name_len 0 and name_len above 64 are rejected
C16_NameLength == HeaderAccepted => WrittenNameLen \in 1..64

\* the half of C16 on long names: no header with name_len above 64 is accepted
HeaderNameAtMost64 == HeaderAccepted => WrittenNameLen <= 64

\* C17 (as stated): every header whose encoded policy length is above 74 is
\* rejected, whatever the 64-bit value, and on success policy_map_len is the
\* encoded length and at most 74
C17_PolicyLength ==
    HeaderAccepted =>
        /\ WrittenPolicyLen \in {<<>>} \cup {<<n>> : n \in 1..74}
        /\ Canonical(<<res.header.policy_map_len>>) = WrittenPolicyLen
        /\ res.header.policy_map_len <= 74

\* the part of C17 on the stored value: it is at most 74, and the policy map
\* has that many bytes
HeaderStoredPolicyLen ==
    HeaderAccepted =>
        (res.header.policy_map_len <= 74
         /\ Len(res.header.policy_map) = res.header.policy_map_len)

\* C18 (as stated): read_policy_map_wallet succeeds only if the header is
\* exhausted right after the 32 bytes of the Merkle root
C18_NoTrailingBytes == HeaderAccepted => res.pos = Len(in_buf)

---------------------------------------------------------------------------
(* Key information *)

KeyInfoDone == pc = "key_info_done"

\* parse_policy_map_key_info returned 0
KeyInfoAccepted == KeyInfoDone /\ res.ok

RECURSIVE FirstIndex(_, _, _)
\* the first position from p on where text holds c, or Len(text) + 1
FirstIndex(text, c, p) ==
    IF p > Len(text) \/ text[p] = c THEN p ELSE FirstIndex(text, c, p + 1)

\* the entry starts with "["
StartsWithOrigin == in_buf # <<>> /\ in_buf[1] = "["

\* the number of /step components written in the origin block
WrittenSteps ==
    IF StartsWithOrigin
    THEN Cardinality({p \in 1..FirstIndex(in_buf, "]", 1) : p <= Len(in_buf) /\ in_buf[p] = "/"})
    ELSE 0

\* every step was stored inside master_key_derivation[0..7]
StoredWithinArray == \A i \in res.info.stored : i < 8

\* C19 (as stated): an origin with 9 steps or more is rejected; on success
\* master_key_derivation_len is at most 8, and no step is ever stored at index
\* 8 or beyond
C19_AtMostEightSteps ==
    /\ KeyInfoAccepted => (WrittenSteps <= 8 /\ res.info.master_key_derivation_len <= 8)
    /\ KeyInfoDone => StoredWithinArray

\* where the extended public key starts, and the first position after its
\* letters and digits
KeyStart == IF StartsWithOrigin THEN FirstIndex(in_buf, "]", 1) + 1 ELSE 1

KeyEnd == AlnumEnd(in_buf, KeyStart)

\* what is written after the letters and digits of the key
Remainder == SubSeq(in_buf, KeyEnd, Len(in_buf))

\* the key has 111 or 112 characters; nothing follows it and has_wildcard is
\* 0, or /** and nothing more follows it and has_wildcard is 1; has_key_origin
\* is 1 iff the entry started with "["
KeyAndWildcard ==
    /\ KeyEnd - KeyStart \in {111, 112}
    /\ \/ Remainder = <<>> /\ res.info.has_wildcard = 0
       \/ Remainder = <<"/", "*", "*">> /\ res.info.has_wildcard = 1
    /\ res.info.has_key_origin = 1 <=> StartsWithOrigin

KeyAndWildcardWithinArray == (KeyInfoAccepted /\ StoredWithinArray) => KeyAndWildcard

---------------------------------------------------------------------------
(* Unsigned decimals *)

\* parse_unsigned_decimal returned, with success or without
DecimalDone == pc = "decimal_done"

\* the digits the input of parse_unsigned_decimal starts with
LeadingDigits == DigitRun(in_buf, 1)

\* C11 (as stated): a digit string whose value does not fit in size_t is never
\* accepted, so that the value of a successful parse is the value of the digits
\* read and never that value reduced modulo 2^32
C11_NoWrappedSuccess ==
    (DecimalDone /\ res.ok) => Decimal(res.out) = LeadingDigits

\* a numeral is one digit at least, and starts with 0 only if it is "0"
WellFormedNumeral(run) == run # <<>> /\ (Len(run) >= 2 => run[1] # "0")

\* the positions of a policy where the grammar has a decimal: the "(" of older,
\* after, thresh, multi and sortedmulti, and every "@"
NumeralSites(text) ==
    {p \in 1..Len(text) :
        \/ text[p] = "@"
        \/ /\ text[p] = "(" /\ p >= 4
           /\ \/ <<text[p - 2], text[p - 1]>> \in {<<"e", "r">>, <<"t", "i">>}
              \/ <<text[p - 3], text[p - 2], text[p - 1]>> = <<"e", "s", "h">>}

\* the positions of the "/" of the steps of a key origin
StepSites ==
    {p \in 1..Len(in_buf) :
        StartsWithOrigin /\ p < FirstIndex(in_buf, "]", 1) /\ in_buf[p] = "/"}

\* C12: a decimal is accepted only with one digit at least and no leading zero;
\* the digit 0 alone parses to 0, an empty run and a run of two digits or more
\* that starts with 0 are rejected, and no accepted policy writes a k, an n or
\* an @index otherwise, nor an accepted key origin a derivation step
C12_DecimalSyntax ==
    /\ DecimalDone =>
          /\ res.ok => WellFormedNumeral(LeadingDigits)
          /\ LeadingDigits = <<"0">> => (res.ok /\ res.out = SizeT(0))
          /\ ~WellFormedNumeral(LeadingDigits) => ~res.ok
    /\ Accepted =>
          \A p \in NumeralSites(in_buf) : WellFormedNumeral(DigitRun(in_buf, p + 1))
    /\ KeyInfoAccepted =>
          \A p \in StepSites : WellFormedNumeral(DigitRun(in_buf, p + 1))

\* parse_unsigned_decimal refused a numeral for its leading zero
C12_Witness == DecimalDone /\ ~res.ok /\ LeadingDigits = <<"0", "1">>

---------------------------------------------------------------------------
(* Derivation steps *)

RECURSIVE StepSiteSeq(_)
\* the positions of the "/" of the steps of the origin from p on, in order
StepSiteSeq(p) ==
    IF p >= FirstIndex(in_buf, "]", 1) THEN <<>>
    ELSE IF in_buf[p] = "/" THEN <<p>> \o StepSiteSeq(p + 1)
    ELSE StepSiteSeq(p + 1)

\* the numeral of the step written at "/" position p, and what follows it
StepNumeral(p) == DigitRun(in_buf, p + 1)

StepSuffix(p) == in_buf[p + 1 + Len(StepNumeral(p))]

\* bit 31 of a stored step, and its low 31 bits
StepHardened(step) == step[1] >= LimbBase \div 2

StepIndex(step) == <<step[1] % (LimbBase \div 2), step[2]>>

\* the i-th step of the origin is a numeral below 2^31, stored with its value
\* and with bit 31 iff an apostrophe follows
StepAsWritten(i) ==
    /\ AtMost(StepNumeral(StepSiteSeq(1)[i]), TimelockMax)
    /\ Decimal(StepIndex(res.info.master_key_derivation[i])) = StepNumeral(StepSiteSeq(1)[i])
    /\ StepHardened(res.info.master_key_derivation[i]) <=> StepSuffix(StepSiteSeq(1)[i]) = "'"
    /\ StepSuffix(StepSiteSeq(1)[i]) \in {"'", "/", "]"}

\* C21 (as stated): a derivation step is accepted only if its numeral denotes a
\* value below 2^31; the stored step is that value, with bit 31 set iff an
\* apostrophe follows the numeral; a suffix h or a numeral of 2^31 or more
\* makes the parse fail
C21_DerivationSteps ==
    (KeyInfoAccepted /\ StartsWithOrigin) =>
        \A i \in 1..Len(StepSiteSeq(1)) : i <= MAX_BIP32_PATH_STEPS => StepAsWritten(i)

\* C21 for the origins whose numerals all fit in a 32-bit word
StepsWithinWord ==
    (KeyInfoAccepted /\ StartsWithOrigin
     /\ \A p \in StepSites : AtMost(StepNumeral(p), WordMax)) =>
        \A i \in 1..Len(StepSiteSeq(1)) : i <= MAX_BIP32_PATH_STEPS => StepAsWritten(i)

---------------------------------------------------------------------------
(* The wallet identifier *)

\* get_policy_wallet_id fed the hash for a decoded header
WalletIdDone == pc = "wallet_id_done"

\* the minimal encoding of a length or count below 2^16
MinimalVarint(v) == IF v <= 252 THEN <<v>> ELSE <<253, v % 256, v \div 256>>

\* the fields of the header, in the order of the wire format
FieldsInOrder ==
    <<res.header.type, res.header.name_len>> \o res.header.name
    \o MinimalVarint(res.header.policy_map_len) \o res.header.policy_map
    \o MinimalVarint(res.header.n_keys) \o res.header.keys_info_merkle_root

\* the number of bytes of the encoding that starts with byte `first`
EncodingLen(first) == CASE first < 253 -> 1 [] first = 253 -> 3 [] first = 254 -> 5 [] first = 255 -> 9

\* the encoding at position p is the shortest one of its value
MinimalAt(p) ==
    CASE in_buf[p] < 253 -> TRUE
      [] in_buf[p] = 253 -> in_buf[p + 2] # 0 \/ in_buf[p + 1] >= 253
      [] in_buf[p] = 254 -> in_buf[p + 3] # 0 \/ in_buf[p + 4] # 0
      [] in_buf[p] = 255 -> \E i \in 5..8 : in_buf[p + i] # 0

\* where the decoder read the length of the policy map and the number of keys
PolicyLenAt == 3 + res.header.name_len

KeysAt == PolicyLenAt + EncodingLen(in_buf[PolicyLenAt]) + res.header.policy_map_len

\* both varints of the header are minimally encoded
MinimallyEncoded == MinimalAt(PolicyLenAt) /\ MinimalAt(KeysAt)

\* the bytes of the header that read_policy_map_wallet consumed
Consumed == SubSeq(in_buf, 1, res.pos)

\* C22 (as stated): get_policy_wallet_id hashes the kind byte, the name_len
\* byte, the name, the varint of policy_map_len, the policy map, the varint of
\* n_keys and the 32 bytes of the Merkle root, in this order and nothing else,
\* and for a header decoded from a minimally encoded byte string these are the
\* bytes that the decoder consumed
C22_WalletIdBytes ==
    WalletIdDone =>
        /\ res.hashed = FieldsInOrder
        /\ MinimallyEncoded => res.hashed = Consumed

\* the first half of C22, and the second for lengths encoded in one byte
WalletIdOfShortLengths ==
    WalletIdDone =>
        /\ res.hashed = FieldsInOrder
        /\ (in_buf[PolicyLenAt] < 253 /\ in_buf[KeysAt] < 253) => res.hashed = Consumed

---------------------------------------------------------------------------
(* Allocation order *)

\* the node types whose arguments are scripts
ScriptBearing ==
    {"SH", "WSH", "ANDOR", "AND_V", "AND_B", "AND_N", "OR_B", "OR_C", "OR_D", "OR_I"}

\* word is written in text just before position p
EndsAt(text, p, word) ==
    p - Len(word) >= 1 /\ SubSeq(text, p - Len(word), p - 1) = word

\* position p of text is the first character of a script: the start of the
\* policy, an argument of a node that takes scripts, or an argument after a
\* comma that is no key placeholder
StartsScript(text, p) ==
    /\ p <= Len(text)
    /\ \/ p = 1
       \/ p > 1 /\ text[p - 1] = "," /\ text[p] # "@"
       \/ /\ p > 1 /\ text[p - 1] = "("
          /\ \E t \in ScriptBearing : EndsAt(text, p - 1, Keyword(t))
          /\ ~EndsAt(text, p - 1, Keyword("THRESH"))

RECURSIVE WordEnd(_, _)
\* the first position from p on that holds no letter, digit or underscore
WordEnd(text, p) ==
    IF p <= Len(text) /\ (is_alphanumeric(text[p]) \/ text[p] = "_")
    THEN WordEnd(text, p + 1) ELSE p

\* the position after the wrapper run and its colon of the script at p
BodyStart(text, p) ==
    IF AlphaEnd(text, p) <= Len(text) /\ text[AlphaEnd(text, p)] = ":"
    THEN AlphaEnd(text, p) + 1 ELSE p

\* the words of the script that starts at p: one per wrapper letter, then the keyword
WordsAt(text, p) ==
    [j \in 1..(BodyStart(text, p) - 1 - p) |-> <<text[p + j - 1]>>]
    \o <<SubSeq(text, BodyStart(text, p), WordEnd(text, BodyStart(text, p)) - 1)>>

RECURSIVE WrittenWords(_, _)
\* the wrapper letters and keywords of text from position p on, in text order
WrittenWords(text, p) ==
    IF p > Len(text) THEN <<>>
    ELSE IF StartsScript(text, p) THEN WordsAt(text, p) \o WrittenWords(text, p + 1)
    ELSE WrittenWords(text, p + 1)

RECURSIVE StoredWords(_)
\* the wrapper letters and keywords of the nodes of the arena from cell i on, in arena order
StoredWords(i) ==
    IF i > Len(res.out.cells) THEN <<>>
    ELSE IF i \in NodesOf(Wrappers)
    THEN <<(<<WrapperLetter[Cell(i).type]>>)>> \o StoredWords(i + 1)
    ELSE IF i \in Nodes THEN <<Keyword(Cell(i).type)>> \o StoredWords(i + 1)
    ELSE StoredWords(i + 1)

\* the script-list cells of the arena
ScriptListCells == {c \in DOMAIN res.out.cells : Cell(c).kind = "scriptlist"}

RECURSIVE LastCell(_)
\* the last script-list cell of the list that starts at cell c
LastCell(c) == IF Cell(c).next = NULL THEN c ELSE LastCell(Cell(c).next)

RECURSIVE SubtreeEnd(_)
\* the last cell of the subtree of node i
SubtreeEnd(i) ==
    IF Cell(i).scripts # <<>> THEN SubtreeEnd(Cell(i).scripts[Len(Cell(i).scripts)])
    ELSE IF Cell(i).type = "THRESH" THEN SubtreeEnd(Cell(LastCell(Cell(i).ptr)).script)
    ELSE IF Cell(i).type \in {"MULTI", "SORTEDMULTI"} THEN i + Cell(i).n
    ELSE i

\* the links of cell i that are set
LinksOf(i) ==
    IF Cell(i).kind = "node"
    THEN {Cell(i).scripts[j] : j \in DOMAIN Cell(i).scripts} \cup ({Cell(i).ptr} \ {NULL})
    ELSE IF Cell(i).kind = "scriptlist" THEN {Cell(i).script, Cell(i).next} \ {NULL}
    ELSE {}

\* C23: when the parse is over every link that was set points to a higher
\* cell of the arena; in an accepted tree the root is the first cell, the
\* first child, script-list cell or key index of a node is the cell after the
\* node, every further sibling is the cell after the subtree of the sibling
\* to its left, the tree fills the allocated cells, and the nodes lie in the
\* arena in the order their keywords are written in
C23_PreOrder ==
    /\ pc = "done" => \A i \in DOMAIN res.out.cells : \A l \in LinksOf(i) : l > i
    /\ Accepted =>
          /\ Root = 1
          /\ SubtreeEnd(Root) = Len(res.out.cells)
          /\ StoredWords(1) = WrittenWords(in_buf, 1)
          /\ \A i \in Nodes :
                /\ Cell(i).scripts # <<>> => Cell(i).scripts[1] = i + 1
                /\ \A j \in 2..Len(Cell(i).scripts) :
                      Cell(i).scripts[j] = SubtreeEnd(Cell(i).scripts[j - 1]) + 1
                /\ Cell(i).type \in {"THRESH", "MULTI", "SORTEDMULTI"} => Cell(i).ptr = i + 1
                /\ Cell(i).type \in {"MULTI", "SORTEDMULTI"} =>
                      \A c \in (i + 1)..(i + Cell(i).n) : Cell(c).kind = "size_t"
          /\ \A c \in ScriptListCells :
                /\ Cell(c).script = c + 1
                /\ Cell(c).next \in {NULL, SubtreeEnd(Cell(c).script) + 1}

\* an accepted tree with a wrapper, a thresh of several children and a
\* combinator whose first child has children of its own
C23_Witness ==
    /\ Accepted
    /\ NodesOf(Wrappers) # {}
    /\ \E i \in NodesOf({"THRESH"}) : Cell(i).n >= 2
    /\ \E i \in Nodes :
          Len(Cell(i).scripts) >= 2 /\ SubtreeEnd(Cell(i).scripts[1]) > Cell(i).scripts[1]

---------------------------------------------------------------------------
(* Arena exhaustion *)

\* the structure a cell was allocated as
StructOf(cell) ==
    IF cell.kind = "scriptlist" THEN "policy_node_scriptlist_t"
    ELSE IF cell.kind = "size_t" THEN "size_t"
    ELSE IF cell.type \in {"0", "1"} THEN "policy_node_constant_t"
    ELSE IF cell.type \in KeyTokens THEN "policy_node_with_key_t"
    ELSE IF cell.type \in Wrappers \cup {"SH", "WSH"} THEN "policy_node_with_script_t"
    ELSE IF cell.type \in Script2Tokens THEN "policy_node_with_script2_t"
    ELSE IF cell.type = "ANDOR" THEN "policy_node_with_script3_t"
    ELSE IF cell.type \in {"OLDER", "AFTER"} THEN "policy_node_with_uint32_t"
    ELSE IF cell.type \in {"SHA256", "HASH256"} THEN "policy_node_with_hash_256_t"
    ELSE IF cell.type \in {"RIPEMD160", "HASH160"} THEN "policy_node_with_hash_160_t"
    ELSE IF cell.type = "THRESH" THEN "policy_node_thresh_t"
    ELSE "policy_node_multisig_t"

RECURSIVE BytesOf(_, _)
\* the bytes the first n cells of an arena take
BytesOf(cells, n) ==
    IF n = 0 THEN 0 ELSE BytesOf(cells, n - 1) + Sizeof(StructOf(cells[n]))

\* the parse of the same policy at the same address in an arena that is large enough
Unbounded == parse_policy_map(in_buf, out_addr, BigArena)

\* the cells written are the first cells of the tree of the unbounded parse
AllocatedPrefix ==
    /\ Len(res.out.cells) <= Len(Unbounded.out.cells)
    /\ \A i \in DOMAIN res.out.cells :
          /\ Cell(i).kind = Unbounded.out.cells[i].kind
          /\ Cell(i).kind = "node" => Cell(i).type = Unbounded.out.cells[i].type

\* C24: whatever the arena size, when the parse is over the cells written lie
\* within the out_len bytes of the arena, cell by cell; a policy that is
\* accepted in a large arena is accepted with the same tree when the tree
\* fits in out_len bytes, and otherwise is rejected with "Out of memory",
\* having written only the first cells of that tree, as many as fit; the
\* links of an accepted tree all point to cells of the arena
C24_ArenaExhaustion ==
    pc = "done" =>
        /\ res.out.size = out_len
        /\ res.out.offset <= out_len
        /\ res.out.offset = BytesOf(res.out.cells, Len(res.out.cells))
        /\ Accepted =>
              /\ Root \in Nodes
              /\ \A i \in DOMAIN res.out.cells : LinksOf(i) \subseteq DOMAIN res.out.cells
        /\ Unbounded.ok =>
              IF Unbounded.out.offset <= out_len
              THEN Accepted /\ res.out.cells = Unbounded.out.cells /\ Root = Unbounded.node
              ELSE /\ Rejected
                   /\ res.err = "Out of memory"
                   /\ AllocatedPrefix
                   /\ res.out.offset
                        + Sizeof(StructOf(Unbounded.out.cells[Len(res.out.cells) + 1])) > out_len

\* a parse that ran out of memory after it had written part of the tree
C24_Witness ==
    /\ Rejected
    /\ res.err = "Out of memory"
    /\ Len(res.out.cells) >= 2
    /\ \E i \in Nodes : Cell(i).type \in {"THRESH", "MULTI", "SORTEDMULTI"}

---------------------------------------------------------------------------
(* Termination *)

\* the largest of a finite set of naturals, 0 for the empty set
MaxOf(S) == IF S = {} THEN 0 ELSE CHOOSE x \in S : \A y \in S : y <= x

\* the children of node i: its scripts, or the scripts of its list
ChildrenOf(i) == IF Cell(i).type = "THRESH" THEN ThreshChildren(i) ELSE Cell(i).scripts

RECURSIVE CallDepth(_)
\* the number of nested calls of parse_script that built the subtree of node
\* i; a wrapper is built by the call that parses its body
CallDepth(i) ==
    IF i \in NodesOf(Wrappers) THEN CallDepth(Cell(i).scripts[1])
    ELSE 1 + MaxOf({CallDepth(ChildrenOf(i)[j]) : j \in DOMAIN ChildrenOf(i)})

RECURSIVE KeyCellsAfter(_)
\* the number of size_t cells that follow node i
KeyCellsAfter(i) ==
    IF i + 1 \in DOMAIN res.out.cells /\ Cell(i + 1).kind = "size_t"
    THEN 1 + KeyCellsAfter(i + 1) ELSE 0

\* C25: when the parse is over the cursor lies within the policy, and no more
\* cells were allocated than bytes were consumed: every node, script-list
\* cell and key index is paid for by a byte of its own; the counter of a
\* thresh is the number of its list cells and the counter of a multi the
\* number of its key indices, so neither exceeds the bytes consumed, and the
\* nesting of the calls that built an accepted tree is at most the policy length
C25_Termination ==
    pc = "done" =>
        /\ res.pos \in 0..Len(in_buf)
        /\ Len(res.out.cells) <= res.pos
        /\ \A i \in NodesOf({"THRESH"}) :
              Cell(i).n = Len(ScriptList(Cell(i).ptr)) /\ Cell(i).n <= res.pos
        /\ \A i \in NodesOf({"MULTI", "SORTEDMULTI"}) :
              Cell(i).n = KeyCellsAfter(i) /\ Cell(i).n <= res.pos
        /\ Accepted => CallDepth(Root) <= Len(in_buf)

\* an accepted tree built by three nested calls, with a thresh of two children
C25_Witness ==
    /\ Accepted
    /\ CallDepth(Root) >= 3
    /\ \E i \in NodesOf({"THRESH"}) : Cell(i).n >= 2

---------------------------------------------------------------------------
(* Where sortedmulti may stand *)

\* node i is the script of an sh or of a wsh node
UnderShOrWsh(i) == \E p \in NodesOf({"SH", "WSH"}) : Cell(p).scripts = <<i>>

\* C26: in an accepted tree every sortedmulti node is the script of an sh or
\* of a wsh node, so that a policy that is a sortedmulti alone is rejected
C26_SortedmultiUnderShWsh ==
    Accepted => \A i \in NodesOf({"SORTEDMULTI"}) : UnderShOrWsh(i)

\* in an accepted tree a sortedmulti node is the root or the script of an sh
\* or of a wsh node
SortedmultiBelowRoot ==
    Accepted => \A i \in NodesOf({"SORTEDMULTI"}) : i = Root \/ UnderShOrWsh(i)

---------------------------------------------------------------------------
(* Colons *)

\* the positions of the policy that hold a ":"
Colons == {p \in DOMAIN in_buf : in_buf[p] = ":"}

\* C27: in an accepted policy every ":" follows a wrapper letter; no script,
\* at the start of the policy or as an argument, starts with ":"
C27_ColonAfterWrappers ==
    Accepted =>
        \A p \in Colons : ~ScriptStart(in_buf, p) /\ in_buf[p - 1] \in WrapperAlphabet

\* the colons of an accepted policy are those of its wrapper runs and of
\* scripts that start with ":", and such a script is parsed as its body
\* alone: the tree has no node for the colon
ColonsAccounted ==
    Accepted =>
        \A p \in Colons : ScriptStart(in_buf, p) \/ in_buf[p - 1] \in WrapperAlphabet

---------------------------------------------------------------------------
(* Miniscript below miniscript *)

\* the node types that read the flags of their children
FlagReaders == Wrappers \cup Combinators \cup {"THRESH"}

\* every flag of X was written: X are the flags of a miniscript node
FullySet(X) ==
    /\ X.is_miniscript = 1
    /\ X.miniscript_type \in {"B", "V", "K", "W"}
    /\ {X.miniscript_mod_z, X.miniscript_mod_o, X.miniscript_mod_n, X.miniscript_mod_d,
        X.miniscript_mod_u} \subseteq {0, 1}

\* the children of node i that were allocated
ParsedChildren(i) == {ChildrenOf(i)[j] : j \in DOMAIN ChildrenOf(i)} \cap Nodes

\* C28: in an accepted tree every child of a wrapper, of andor, of a
\* combinator with two children and of thresh is flagged miniscript, with its
\* type and its five modifiers written, and is no sh, wsh, wpkh, tr or
\* sortedmulti; whenever the parse is over, a node that was given miniscript
\* flags has all of them written, and so has every child it was computed from
C28_MiniscriptChildren ==
    /\ Accepted =>
          \A i \in NodesOf(FlagReaders) :
              /\ ChildrenOf(i) # <<>>
              /\ \A j \in DOMAIN ChildrenOf(i) :
                    /\ ChildrenOf(i)[j] \in Nodes
                    /\ FullySet(Cell(ChildrenOf(i)[j]).flags)
                    /\ Cell(ChildrenOf(i)[j]).type \notin NotMiniscriptLeaves
    /\ pc = "done" =>
          \A i \in Nodes :
              Cell(i).flags.is_miniscript = 1 =>
                  /\ FullySet(Cell(i).flags)
                  /\ Cell(i).type \notin NotMiniscriptLeaves
                  /\ \A c \in ParsedChildren(i) : FullySet(Cell(c).flags)

\* an accepted wsh or sh over a tree with a wrapper and a node of several children
C28_Witness ==
    /\ Accepted
    /\ Cell(Root).type \in {"SH", "WSH"}
    /\ NodesOf(Wrappers) # {}
    /\ NodesOf(Combinators \cup {"THRESH"}) # {}

---------------------------------------------------------------------------
(* Modifiers that exclude each other *)

\* the nodes of the arena that are flagged miniscript
MiniscriptNodes == {i \in Nodes : Cell(i).flags.is_miniscript = 1}

\* C29: in an accepted tree no miniscript node has both z and o
C29_NotZAndO ==
    Accepted => \A i \in MiniscriptNodes : ~(ModZ(Cell(i).flags) /\ ModO(Cell(i).flags))

\* the hash fragments
HashNodes == NodesOf({"SHA256", "HASH256", "RIPEMD160", "HASH160"})

\* in an accepted tree without hash fragments no miniscript node has both z and o
NotZAndOWithoutHashes ==
    (Accepted /\ HashNodes = {}) =>
        \A i \in MiniscriptNodes : ~(ModZ(Cell(i).flags) /\ ModO(Cell(i).flags))

\* C30: in an accepted tree a miniscript node of type V has neither d nor u
C30_TypeVNotDU ==
    Accepted =>
        \A i \in MiniscriptNodes :
            IsType(Cell(i).flags, "V") => ~ModD(Cell(i).flags) /\ ~ModU(Cell(i).flags)

\* an accepted tree with a v: wrapper, a V-typed and_v, andor or or_i, and an or_c
C30_Witness ==
    /\ Accepted
    /\ \E i \in NodesOf({"V"}) : IsType(Cell(i).flags, "V")
    /\ \E i \in NodesOf({"AND_V", "ANDOR", "OR_I"}) : IsType(Cell(i).flags, "V")
    /\ \E i \in NodesOf({"OR_C"}) : IsType(Cell(i).flags, "V")

====
